---------------------------- MODULE Spec2Model ----------------------------
(***************************************************************************)
(* A model of the GBIF downloader's acquisition pipeline:                  *)
(*   - GBIFClient.iter_occurrences_by_year (src/gbif_downloader/api.py),   *)
(*     the year-bucketed paginated fetch with deduplication and            *)
(*     cooperative cancellation;                                           *)
(*   - GBIFClient._make_request over the session built by _create_session; *)
(*   - retry_with_backoff (src/gbif_downloader/utils.py);                  *)
(*   - GBIFClient.match_taxon, the taxon resolution;                       *)
(*   - a download run of the CLI (cli.py) and of the GUI worker (gui.py);  *)
(*   - RecordFilter.apply (src/gbif_downloader/filters.py).                *)
(* An occurrence record is identified by its key; the remote API, the      *)
(* stop_check predicate and the wrapped function are the environment.      *)
(***************************************************************************)
EXTENDS Integers, Sequences, FiniteSets, TLC

(***************************************************************************)
(* Bounds of the model.                                                    *)
(***************************************************************************)
\* record identifiers are 1..NKeys
NKeys == 2
\* years are BaseYear .. BaseYear + MaxYears - 1
MaxYears == 2
BaseYear == 2000
\* records the remote index holds for one year when small pages are used
MaxBucket == 3
\* longest page whose contents are enumerated freely
MaxLen == 2
\* largest max_retries tried
MaxRetries == 3
\* largest initial delay and backoff factor tried
MaxDelay == 2
\* longest text (names, codes) enumerated
MaxStr == 2
\* the configured uncertainty_max; record uncertainties go one above it
MaxUncertainty == 2
\* most records one download run takes from the fetch
MaxRecords == 3
\* longest comma separated text handed to a list field
MaxText == 4
\* longest list handed to filter_records
MaxBatch == 3
\* most downloads started in one session of the GUI
MaxRuns == 2
\* most pages the GUI worker fetches of one year
MaxPages == 2

(***************************************************************************)
(* Program constants.                                                      *)
(***************************************************************************)
DEFAULT_PAGE_SIZE == 300
MAX_OFFSET == 100000
GBIF_MAX_LIMIT == 300
MIN_YEAR == 1700
DEFAULT_YEAR_START == 1800

None == "None"
Keys == 1..NKeys
Years == BaseYear..(BaseYear + MaxYears - 1)
\* datetime.now().year
CurrentYear == BaseYear + MaxYears - 1

Min(a, b) == IF a <= b THEN a ELSE b

SeqsUpTo(S, n) == UNION {[1..k -> S] : k \in 0..n}

(***************************************************************************)
(* The exception classes of api.py and Python's except matching.           *)
(***************************************************************************)
Parent(cls) ==
    CASE cls = "TaxonNotFoundError" -> "GBIFError"
      [] cls = "RateLimitError"     -> "GBIFError"
      [] cls = "APIError"           -> "GBIFError"
      [] cls = "GBIFError"          -> "Exception"
      [] OTHER                      -> None

RECURSIVE IsInstance(_, _)
IsInstance(exc, cls) ==
    IF exc = None THEN FALSE
    ELSE IF exc = cls THEN TRUE
    ELSE IsInstance(Parent(exc), cls)

(***************************************************************************)
(* GBIFClient.__init__: the page size is capped at the API's maximum.      *)
(***************************************************************************)
CapPageSize(requested) == Min(requested, GBIF_MAX_LIMIT)

(***************************************************************************)
(* State of one call of iter_occurrences_by_year.                          *)
(***************************************************************************)
VARIABLES
    pc,             \* position of the generator
    page_size_arg,  \* page_size passed to GBIFClient(...)
    page_size,      \* self.page_size
    year_start,     \* argument
    year_end,       \* argument, None resolved to the current year
    has_stop_check, \* whether a stop_check predicate was passed
    has_callback,   \* whether a progress_callback was passed
    index_keys,     \* environment: the identifiers the remote index holds
    bucket_size,    \* environment: records the remote index holds per year
    total_estimate, \* result of the count query
    year,           \* loop variable of the for loop
    offset,         \* params["offset"]
    data,           \* the page response being consumed
    idx,            \* index in data.results of the record last yielded
    seen_keys,      \* the deduplication set
    count,          \* records yielded so far
    yielded,        \* keys yielded, in order
    callbacks,      \* the calls of progress_callback, in order
    raised,         \* exception that left the generator, or None
    last_log,       \* last message handed to the logger
    \* history of the run
    last_req,       \* last page request issued: year, offset, limit
    last_outcome,   \* how the last page request ended
    req_years,      \* years for which a page request was issued
    n_requests,     \* page requests issued for the current year
    polls,          \* results of the stop_check polls since the last request
    script,         \* environment: page responses a mocked _make_request serves
    served,         \* environment: how many of them it has served
    scripted,       \* environment: whether _make_request is mocked
    stopped,        \* some poll of stop_check returned true
    any_ok,         \* some page request returned a response
    any_err         \* some page request ended in an error

fetchVars == <<pc, page_size_arg, page_size, year_start, year_end,
               has_stop_check, has_callback, index_keys, callbacks,
               bucket_size, total_estimate, year, offset,
               data, idx, seen_keys, count, yielded, raised, last_log,
               last_req, last_outcome, req_years, n_requests, polls, script,
               served, scripted, stopped, any_ok, any_err>>

(***************************************************************************)
(* State of one call of a function wrapped by retry_with_backoff.          *)
(***************************************************************************)
VARIABLES
    rb_pc,             \* position in wrapper
    rb_max_retries,    \* decorator argument
    rb_initial_delay,  \* decorator argument
    rb_backoff_factor, \* decorator argument
    rb_attempt,        \* loop variable
    rb_delay,          \* delay
    rb_outcomes,       \* how each call of func ended, in order
    rb_sleeps,         \* arguments of the sleep calls, in order
    rb_raised,         \* what left wrapper: the failing call and its kind
    rb_log             \* last message handed to the logger

retryVars == <<rb_pc, rb_max_retries, rb_initial_delay, rb_backoff_factor,
               rb_attempt, rb_delay, rb_outcomes, rb_sleeps, rb_raised,
               rb_log>>

(***************************************************************************)
(* State of one call of GBIFClient._make_request.                          *)
(***************************************************************************)
VARIABLES
    mr_pc,          \* position in _make_request
    mr_endpoint,    \* which network call is made
    mr_max_retries, \* self.max_retries
    mr_sent,        \* times the session's adapter sent the request
    mr_last,        \* how the last send ended
    mr_outcome,     \* what session.get handed to _make_request
    mr_result       \* what _make_request returned or raised

reqVars == <<mr_pc, mr_endpoint, mr_max_retries, mr_sent, mr_last,
             mr_outcome, mr_result>>

(***************************************************************************)
(* State of one call of GBIFClient.match_taxon.                            *)
(***************************************************************************)
VARIABLES
    mt_pc,        \* "idle", "call", "returned", "raised"
    mt_name,      \* argument name
    mt_rank,      \* argument rank (None when not supplied)
    mt_strict,    \* argument strict
    mt_data,      \* the JSON object _make_request returned
    mt_match,     \* the TaxonMatch returned
    mt_error      \* the exception raised

matchVars == <<mt_pc, mt_name, mt_rank, mt_strict, mt_data, mt_match,
               mt_error>>

(***************************************************************************)
(* State of one download run (cli.run_download, GUI _run_download).        *)
(***************************************************************************)
VARIABLES
    dl_pc,        \* "idle", "match", "count", "fetch", "finish", "ended"
    dl_frontend,  \* "cli" or "gui"
    dl_requests,  \* the client calls made so far, in order
    dl_taxon,     \* TRUE once match_taxon has returned
    dl_total,     \* total_count
    dl_processed, \* records taken from the fetch
    dl_kept,      \* len(filtered_records)
    dl_stop,      \* GUI: stop_event is set
    dl_outcome    \* how the run ended

downloadVars == <<dl_pc, dl_frontend, dl_requests, dl_taxon, dl_total,
                  dl_processed, dl_kept, dl_stop, dl_outcome>>

(***************************************************************************)
(* State of one RecordFilter and of the loop that feeds it.                *)
(***************************************************************************)
VARIABLES
    rf_pc,        \* "idle", "next", "result", "raised"
    rf_feed,      \* which family of records the caller feeds
    rf_config,    \* self.config
    rf_seen,      \* self._seen_keys
    rf_record,    \* the record handed to apply
    rf_before,    \* _seen_keys when apply was entered
    rf_result,    \* the FilterResult returned
    rf_applied,   \* the keys applied in earlier calls, since the last reset
    rf_raised,    \* exception that left apply, or None
    rf_cleared    \* the keys that calls of reset removed from _seen_keys

filterVars == <<rf_pc, rf_feed, rf_config, rf_seen, rf_record, rf_before,
                rf_result, rf_applied, rf_raised, rf_cleared>>

(***************************************************************************)
(* State of one construction of a FilterConfig.                            *)
(***************************************************************************)
VARIABLES
    fc_pc,      \* "idle", "new", "built", "raised"
    fc_args,    \* the arguments of the constructor
    fc_config,  \* the fields when __post_init__ has returned
    fc_error    \* the ValueError raised, or None

configVars == <<fc_pc, fc_args, fc_config, fc_error>>

(***************************************************************************)
(* State of one call of filter_records.                                    *)
(***************************************************************************)
VARIABLES
    fr_pc,        \* "idle", "loop", "returned", "raised"
    fr_config,    \* argument
    fr_records,   \* the records of the argument list taken so far
    fr_seen,      \* record_filter._seen_keys
    fr_filtered,  \* filtered
    fr_stats      \* stats

batchVars == <<fr_pc, fr_config, fr_records, fr_seen, fr_filtered, fr_stats>>

(***************************************************************************)
(* State of the GUI (gui.py): the attributes of GBIFDownloaderGUI that the *)
(* Start and Stop callbacks and the worker threads share, and the state of *)
(* each worker thread started so far.                                      *)
(***************************************************************************)
VARIABLES
    gui_is_downloading, \* self.is_downloading
    gui_stop_event,     \* self.stop_event is set
    gui_download_btn,   \* state of self.download_btn
    gui_stop_btn,       \* state of self.stop_btn
    gui_started,        \* number of worker threads started
    gui_pc,             \* per worker: position in _run_download
    gui_client,         \* per worker: "none", "open" or "closed" session
    gui_late,           \* per worker: requests issued while the flag was set
    gui_year,           \* per worker: years the generator has finished
    gui_page,           \* per worker: pages fetched of the current year
    gui_processed,      \* per worker: processed
    gui_kept,           \* per worker: len(filtered_records)
    gui_exit            \* per worker: the path on which it left the try block

guiVars == <<gui_is_downloading, gui_stop_event, gui_download_btn,
             gui_stop_btn, gui_started, gui_pc, gui_client, gui_late,
             gui_year, gui_page, gui_processed, gui_kept, gui_exit>>

vars == <<fetchVars, retryVars, reqVars, matchVars, downloadVars,
          filterVars, configVars, batchVars, guiVars>>

nonFetchVars == <<retryVars, reqVars, matchVars, downloadVars, filterVars,
                  configVars, batchVars, guiVars>>
nonRetryVars == <<fetchVars, reqVars, matchVars, downloadVars, filterVars,
                  configVars, batchVars, guiVars>>
nonRequestVars == <<fetchVars, retryVars, matchVars, downloadVars,
                    filterVars, configVars, batchVars, guiVars>>
nonMatchVars == <<fetchVars, retryVars, reqVars, downloadVars, filterVars,
                  configVars, batchVars, guiVars>>
nonDownloadVars == <<fetchVars, retryVars, reqVars, matchVars, filterVars,
                     configVars, batchVars, guiVars>>
nonFilterVars == <<fetchVars, retryVars, reqVars, matchVars, downloadVars,
                   configVars, batchVars, guiVars>>
nonConfigVars == <<fetchVars, retryVars, reqVars, matchVars, downloadVars,
                   filterVars, batchVars, guiVars>>
nonBatchVars == <<fetchVars, retryVars, reqVars, matchVars, downloadVars,
                  filterVars, configVars, guiVars>>
nonGuiVars == <<fetchVars, retryVars, reqVars, matchVars, downloadVars,
                filterVars, configVars, batchVars>>

NoData == [results |-> <<>>, endOfRecords |-> FALSE]
NoReq == [year |-> 0, offset |-> -1, limit |-> 0]
Log(level, msg) == [level |-> level, msg |-> msg]

(***************************************************************************)
(* The remote API (environment).  At offset off of a year bucket holding   *)
(* bucket records it returns at most min(limit, bucket - off) results; the *)
(* identifiers may repeat, within a page and across pages and years.       *)
(* Pages too long to enumerate freely hold one identifier repeated.        *)
(***************************************************************************)
PagesOfLen(n, keys) ==
    IF n <= MaxLen THEN [1..n -> keys]
    ELSE {[i \in 1..n |-> k] : k \in keys}

ApiResults(limit, off, bucket, keys) ==
    LET most == IF off >= bucket THEN 0 ELSE Min(limit, bucket - off)
    IN  SeqsUpTo(keys, Min(most, MaxLen)) \cup PagesOfLen(most, keys)

ApiResponses(limit, off, bucket, keys) ==
    {[results |-> r, endOfRecords |-> e] :
        r \in ApiResults(limit, off, bucket, keys), e \in BOOLEAN}

\* what _make_request raises (its docstring, api.py 263-265)
RequestErrors == {"APIError", "RateLimitError"}

(***************************************************************************)
(* Helpers of the generator's body.                                        *)
(***************************************************************************)
\* a deduplication that never recognises a key
IsDuplicateNever(key, seen) == FALSE

\* api.py 546: record.key in seen_keys
IsDuplicate(key, seen) == key \in seen

\* api.py 542-550: the next item after position i that is not skipped as a
\* duplicate, 0 when the rest of the page is skipped
NextFresh(results, i, seen) ==
    LET fresh == {j \in i..Len(results) : ~IsDuplicate(results[j], seen)}
    IN  IF fresh = {} THEN 0
        ELSE CHOOSE j \in fresh : \A k \in fresh : j <= k

\* a page end that ignores short pages
PageEndsFlagOnly(d, ps) == d.endOfRecords

\* a page end that takes a full page for a short one
PageEndsOnFull(d, ps) == d.endOfRecords \/ Len(d.results) <= ps

\* api.py 556: the page was the last of its year
PageEnds(d, ps) == d.endOfRecords \/ Len(d.results) < ps

\* api.py 559
NextOffset(off, ps) == off + ps

\* a loop that knows no ceiling
CeilingReachedNever(off) == FALSE

\* a ceiling that lets one more page through
CeilingReachedLate(off) == off >= MAX_OFFSET + GBIF_MAX_LIMIT

\* api.py 562
CeilingReached(off) == off >= MAX_OFFSET

\* a year loop without its except clause
CaughtInYearNever(exc) == FALSE

\* api.py 534: except APIError
CaughtInYear(exc) == IsInstance(exc, "APIError")

\* api.py 491-492: an omitted year_end is the current year
ResolveYearEnd(given, ye) == IF given THEN ye ELSE CurrentYear

\* api.py 508 / 529: stop_check and stop_check()
PollResults == IF has_stop_check THEN BOOLEAN ELSE {FALSE}

\* a loop head that goes on without asking the predicate
PolledNot(r) == polls

\* the polls made since the last request; none is made without a predicate
Polled(r) == IF has_stop_check THEN Append(polls, r) ELSE polls

\* the responses the next page request can get: any the API can give, or
\* the next one of the mock's side_effect list (tests/test_api.py 213-231)
PageResponses ==
    IF scripted
    THEN IF served < Len(script) THEN {script[served + 1]} ELSE {}
    ELSE ApiResponses(page_size, offset, bucket_size, index_keys)

\* a mocked _make_request serves its responses and raises nothing
RaisableErrors == IF scripted THEN {} ELSE RequestErrors

(***************************************************************************)
(* Init: the arguments of the call.                                        *)
(***************************************************************************)
SmallPageSizes == 1..MaxLen
PageSizeArgs == SmallPageSizes \cup {DEFAULT_PAGE_SIZE + 200}

\* api.py 503-504 and the run's history: nothing fetched yet
FetchFresh ==
    /\ total_estimate = 0
    /\ offset = 0
    /\ data = NoData
    /\ idx = 0
    /\ seen_keys = {}
    /\ count = 0
    /\ yielded = <<>>
    /\ callbacks = <<>>
    /\ raised = None
    /\ last_log = Log("none", "")
    /\ last_req = NoReq
    /\ last_outcome = "none"
    /\ req_years = {}
    /\ n_requests = 0
    /\ stopped = FALSE
    /\ served = 0
    /\ any_ok = FALSE
    /\ any_err = FALSE

InitFetch(sizes, bucket) ==
    /\ pc = "count"
    /\ FetchFresh
    /\ polls = <<>>
    /\ page_size_arg \in sizes
    /\ page_size = CapPageSize(page_size_arg)
    /\ bucket_size = bucket
    /\ year_start \in Years
    /\ \E given \in BOOLEAN, ye \in Years :
          year_end = ResolveYearEnd(given, ye)
    /\ year = year_start

runVars == <<page_size_arg, page_size, year_start, year_end, has_stop_check,
             has_callback, index_keys, bucket_size, scripted, script>>
histVars == <<last_req, last_outcome, req_years, any_ok, any_err>>


(***************************************************************************)
(* api.py 494-504: the count query that precedes the year loop.  Its       *)
(* _make_request is outside any try block.                                 *)
(***************************************************************************)
CountQuery ==
    /\ pc = "count"
    /\ \/ \E c \in {0, MaxBucket} :
            /\ total_estimate' = c
            /\ pc' = "for"
            /\ last_log' = Log("info", "Estimated total")
            /\ UNCHANGED raised
       \/ \E e \in RaisableErrors :
            /\ raised' = e
            /\ pc' = "raised"
            /\ UNCHANGED <<total_estimate, last_log>>
    /\ UNCHANGED <<runVars, histVars, year, offset, data, idx, seen_keys,
                   count, callbacks, yielded, stopped, polls, served, n_requests>>
    /\ UNCHANGED nonFetchVars

(***************************************************************************)
(* api.py 506-526 and 568: the head of the for loop over the years.        *)
(***************************************************************************)
ForHead ==
    /\ pc = "for"
    /\ IF year > year_end
       THEN /\ pc' = "done"
            /\ last_log' = Log("info", "Downloaded unique records")
            /\ UNCHANGED <<offset, stopped, polls, n_requests>>
       ELSE \E r \in PollResults :
            /\ polls' = Polled(r)
            /\ IF r
               THEN /\ pc' = "done"
                    /\ stopped' = TRUE
                    /\ last_log' = Log("info", "Downloaded unique records")
                    /\ UNCHANGED <<offset, n_requests>>
               ELSE /\ pc' = "while"
                    /\ offset' = 0
                    /\ n_requests' = 0
                    /\ last_log' = Log("debug", "Processing year")
                    /\ UNCHANGED stopped
    /\ UNCHANGED <<runVars, histVars, total_estimate, year, data, idx,
                   seen_keys, count, callbacks, yielded, raised, served>>
    /\ UNCHANGED nonFetchVars

(***************************************************************************)
(* api.py 528-530: the poll that precedes each page request.  A true poll  *)
(* breaks out of the while loop only: the for loop goes on to its next     *)
(* iteration.                                                              *)
(***************************************************************************)
WhileHead ==
    /\ pc = "while"
    /\ \E r \in PollResults :
          /\ polls' = Polled(r)
          /\ IF r
             THEN /\ pc' = "for"
                  /\ year' = year + 1
                  /\ stopped' = TRUE
             ELSE /\ pc' = "request"
                  /\ UNCHANGED <<year, stopped>>
    /\ UNCHANGED <<runVars, histVars, total_estimate, offset, data, idx,
                   seen_keys, count, callbacks, yielded, raised, last_log, served,
                   n_requests>>
    /\ UNCHANGED nonFetchVars

(***************************************************************************)
(* api.py 532-540: one page request and the handling of its outcome.       *)
(***************************************************************************)
RequestOf(y, off, ps) == [year |-> y, offset |-> off, limit |-> ps]

MakeRequest ==
    /\ pc = "request"
    /\ last_req' = RequestOf(year, offset, page_size)
    /\ req_years' = req_years \cup {year}
    /\ n_requests' = n_requests + 1
    /\ polls' = <<>>
    /\ served' = IF scripted THEN served + 1 ELSE served
    /\ \/ \E d \in PageResponses :
            /\ data' = d
            /\ idx' = 0
            /\ last_outcome' = "response"
            /\ any_ok' = TRUE
            /\ IF d.results = <<>>
               THEN /\ pc' = "for"
                    /\ year' = year + 1
               ELSE /\ pc' = "items"
                    /\ UNCHANGED year
            /\ UNCHANGED <<raised, last_log, any_err>>
       \/ \E e \in RaisableErrors :
            /\ last_outcome' = e
            /\ any_err' = TRUE
            /\ IF CaughtInYear(e)
               THEN /\ last_log' = Log("warning", "Error fetching year")
                    /\ pc' = "for"
                    /\ year' = year + 1
                    /\ UNCHANGED raised
               ELSE /\ raised' = e
                    /\ pc' = "raised"
                    /\ UNCHANGED <<year, last_log>>
            /\ UNCHANGED <<data, idx, any_ok>>
    /\ UNCHANGED <<runVars, total_estimate, offset, seen_keys, count,
                   callbacks, yielded, stopped>>
    /\ UNCHANGED nonFetchVars

(***************************************************************************)
(* api.py 542-566: the generator runs from one yield to the next.  Items   *)
(* whose key was seen are skipped; when the page is used up the loop       *)
(* either leaves the year or moves to the next offset.  The statements     *)
(* after the yield (551-554) run when the consumer asks for the next       *)
(* record: the generator is suspended at the yield while idx > 0.          *)
(***************************************************************************)
\* api.py 554: the arguments of progress_callback
Call(k, total, y) == [count |-> k, total |-> total, year |-> y]

\* api.py 553-554
Reported(calls, call) == Append(calls, call)

NextItem ==
    /\ pc = "items"
    /\ LET resumed == idx > 0
           counted == IF resumed THEN count + 1 ELSE count
           j == NextFresh(data.results, idx + 1, seen_keys)
       IN  /\ count' = counted
           /\ callbacks' =
                IF resumed /\ has_callback
                THEN Reported(callbacks, Call(counted, total_estimate, year))
                ELSE callbacks
           /\ IF j # 0
              THEN /\ seen_keys' = seen_keys \cup {data.results[j]}
                   /\ yielded' = Append(yielded, data.results[j])
                   /\ idx' = j
                   /\ UNCHANGED <<pc, year, offset, last_log>>
              ELSE /\ UNCHANGED <<seen_keys, yielded, idx>>
                   /\ IF PageEnds(data, page_size)
                      THEN /\ pc' = "for"
                           /\ year' = year + 1
                           /\ UNCHANGED <<offset, last_log>>
                      ELSE /\ offset' = NextOffset(offset, page_size)
                           /\ IF CeilingReached(offset')
                              THEN /\ last_log' =
                                        Log("warning",
                                            "Year has >100K records")
                                   /\ pc' = "for"
                                   /\ year' = year + 1
                              ELSE /\ pc' = "while"
                                   /\ UNCHANGED <<year, last_log>>
    /\ UNCHANGED <<runVars, histVars, total_estimate, data, raised, stopped,
                   polls, served, n_requests>>
    /\ UNCHANGED nonFetchVars

(***************************************************************************)
(* The consumer leaves its loop while the generator is suspended at the    *)
(* yield (gui.py 375-376, or an exception in the body of the loop of       *)
(* cli.py 303-316): the generator is closed where it stands and none of    *)
(* its statements runs any more.                                           *)
(***************************************************************************)
Abandon ==
    /\ pc = "items"
    /\ idx > 0
    /\ pc' = "closed"
    /\ UNCHANGED <<runVars, histVars, total_estimate, year, offset, data,
                   idx, seen_keys, count, callbacks, yielded, raised,
                   last_log, stopped, polls, served, n_requests>>
    /\ UNCHANGED nonFetchVars

(***************************************************************************)
(* retry_with_backoff (utils.py 69-114).  func is the environment: each    *)
(* call returns, raises an exception of a listed type, or raises another.  *)
(***************************************************************************)
FuncOutcomes == {"ok", "listed", "unlisted"}
NoFailure == [call |-> 0, kind |-> "none"]

\* utils.py 94: range(max_retries + 1)
InRange(attempt, max_retries) == attempt < max_retries + 1

\* utils.py 97: except exceptions
Catches(kind) == kind = "listed"

\* a last-attempt test that is off by one
IsLastAttemptLate(attempt, max_retries) == attempt = max_retries + 1

\* utils.py 98: attempt == max_retries
IsLastAttempt(attempt, max_retries) == attempt = max_retries

\* a delay that never grows
NextDelaySame(delay, factor) == delay

\* utils.py 107: delay *= backoff_factor
NextDelay(delay, factor) == delay * factor

\* utils.py 91-92: the state of wrapper before its loop
RetryFresh ==
    /\ rb_attempt = 0
    /\ rb_delay = rb_initial_delay
    /\ rb_outcomes = <<>>
    /\ rb_sleeps = <<>>
    /\ rb_raised = NoFailure
    /\ rb_log = Log("none", "")

InitRetryVars ==
    /\ rb_pc = "loop"
    /\ rb_max_retries \in -1..MaxRetries
    /\ rb_initial_delay \in 1..MaxDelay
    /\ rb_backoff_factor \in 1..MaxDelay
    /\ RetryFresh

retryArgs == <<rb_max_retries, rb_initial_delay, rb_backoff_factor>>

\* utils.py 94 and 110: the loop head, and the statement after the loop
RetryLoop ==
    /\ rb_pc = "loop"
    /\ IF InRange(rb_attempt, rb_max_retries)
       THEN /\ rb_pc' = "call"
            /\ UNCHANGED rb_raised
       ELSE /\ rb_pc' = "raised"
            /\ rb_raised' = [call |-> 0, kind |-> "RuntimeError"]
    /\ UNCHANGED <<retryArgs, rb_attempt, rb_delay, rb_outcomes, rb_sleeps,
                   rb_log>>
    /\ UNCHANGED nonRetryVars

\* utils.py 95-105: one call of func and the except clause
RetryCall ==
    /\ rb_pc = "call"
    /\ \E o \in FuncOutcomes :
         /\ rb_outcomes' = Append(rb_outcomes, o)
         /\ IF o = "ok"
            THEN /\ rb_pc' = "returned"
                 /\ UNCHANGED <<rb_raised, rb_log>>
            ELSE IF ~Catches(o)
            THEN /\ rb_pc' = "raised"
                 /\ rb_raised' = [call |-> Len(rb_outcomes'), kind |-> o]
                 /\ UNCHANGED rb_log
            ELSE IF IsLastAttempt(rb_attempt, rb_max_retries)
            THEN /\ rb_log' = Log("error", "Failed after attempts")
                 /\ rb_pc' = "raised"
                 /\ rb_raised' = [call |-> Len(rb_outcomes'), kind |-> o]
            ELSE /\ rb_log' = Log("warning", "Attempt failed, retrying")
                 /\ rb_pc' = "sleep"
                 /\ UNCHANGED rb_raised
    /\ UNCHANGED <<retryArgs, rb_attempt, rb_delay, rb_sleeps>>
    /\ UNCHANGED nonRetryVars

\* utils.py 106-107, then the next iteration of the loop
RetrySleep ==
    /\ rb_pc = "sleep"
    /\ rb_sleeps' = Append(rb_sleeps, rb_delay)
    /\ rb_delay' = NextDelay(rb_delay, rb_backoff_factor)
    /\ rb_attempt' = rb_attempt + 1
    /\ rb_pc' = "loop"
    /\ UNCHANGED <<retryArgs, rb_outcomes, rb_raised, rb_log>>
    /\ UNCHANGED nonRetryVars

(***************************************************************************)
(* GBIFClient._make_request (api.py 248-285) over the session of           *)
(* _create_session (api.py 222-246).  The session's adapter resends a GET  *)
(* that fails with a connection error, a timeout or a status of            *)
(* status_forcelist until the Retry object's total is used up.             *)
(***************************************************************************)
Endpoints == {"species/match", "occurrence/search count",
              "occurrence/search page"}

\* api.py 230
StatusForcelist == {429, 500, 502, 503, 504}

Status(code) == [kind |-> "status", code |-> code, error |-> ""]
Failure(name) == [kind |-> "error", code |-> 0, error |-> name]
NoSend == [kind |-> "none", code |-> 0, error |-> ""]

\* what one send can end in: a response with a status, or no response
SendOutcomes ==
    {Status(c) : c \in {200, 404} \cup StatusForcelist}
        \cup {Failure(e) : e \in {"ConnectionError", "Timeout"}}

\* the failures the adapter retries
Transient(o) ==
    \/ o.kind = "error"
    \/ o.kind = "status" /\ o.code \in StatusForcelist

\* a session that is built without retries
AdapterTotalZero(max_retries) == 0

\* api.py 228: Retry(total=self.max_retries)
AdapterTotal(max_retries) == max_retries

\* what the adapter hands to _make_request once the retries of a transient
\* failure are used up: the error, or for a status either the last response
\* or a RetryError, as the library decides
Exhausted(o) ==
    IF o.kind = "error" THEN {o} ELSE {o, Failure("RetryError")}

\* api.py 272-285: the result of _make_request for what session.get gave
RequestResult(o) ==
    IF o.kind = "status"
    THEN IF o.code = 429 THEN "RateLimitError"
         ELSE IF o.code >= 400 THEN "APIError"
         ELSE "json"
    ELSE "APIError"

RequestFresh ==
    /\ mr_sent = 0
    /\ mr_last = NoSend
    /\ mr_outcome = NoSend
    /\ mr_result = "none"

InitRequestVars ==
    /\ mr_pc = "send"
    /\ mr_endpoint \in Endpoints
    /\ mr_max_retries \in 0..MaxRetries
    /\ RequestFresh

\* api.py 270: session.get, one send of the adapter
SessionSend ==
    /\ mr_pc = "send"
    /\ mr_sent' = mr_sent + 1
    /\ \E o \in SendOutcomes :
         /\ mr_last' = o
         /\ IF Transient(o)
            THEN IF mr_sent < AdapterTotal(mr_max_retries)
                 THEN /\ mr_pc' = "send"
                      /\ UNCHANGED mr_outcome
                 ELSE /\ mr_pc' = "respond"
                      /\ mr_outcome' \in Exhausted(o)
            ELSE /\ mr_pc' = "respond"
                 /\ mr_outcome' = o
    /\ UNCHANGED <<mr_endpoint, mr_max_retries, mr_result>>
    /\ UNCHANGED nonRequestVars

\* api.py 272-285
HandleResponse ==
    /\ mr_pc = "respond"
    /\ mr_result' = RequestResult(mr_outcome)
    /\ mr_pc' = IF mr_result' = "json" THEN "returned" ELSE "raised"
    /\ UNCHANGED <<mr_endpoint, mr_max_retries, mr_sent, mr_last, mr_outcome>>
    /\ UNCHANGED nonRequestVars

(***************************************************************************)
(* Text.  A string is a sequence of characters; the alphabet is two        *)
(* letters in both cases, so that lower(), upper() and `in` are computed.  *)
(***************************************************************************)
Chars == {"a", "A", "b", "B"}

\* str.lower and str.upper, character by character
LowerChar(c) == CASE c = "A" -> "a" [] c = "B" -> "b" [] OTHER -> c
UpperChar(c) == CASE c = "a" -> "A" [] c = "b" -> "B" [] OTHER -> c
Lower(s) == [i \in 1..Len(s) |-> LowerChar(s[i])]
Upper(s) == [i \in 1..Len(s) |-> UpperChar(s[i])]

Strings == SeqsUpTo(Chars, MaxStr)

\* Python's `sub in s` on strings
Contains(sub, s) ==
    \E i \in 0..(Len(s) - Len(sub)) : SubSeq(s, i + 1, i + Len(sub)) = sub

\* a field that may be missing: dict.get(key) gives None for Absent
Absent == <<>>
Some(v) == <<v>>
Optional(S) == {Absent} \cup {Some(v) : v \in S}
\* dict.get(key, default), and `value or default` for a text field
OrElse(o, default) == IF o = Absent THEN default ELSE o[1]

(***************************************************************************)
(* GBIFClient.match_taxon (api.py 287-345) and TaxonMatch (api.py 63-106). *)
(* The response of the species/match endpoint is the environment.          *)
(***************************************************************************)
Ranks == {"GENUS", "FAMILY", "SPECIES"}
MatchTypes == {"NONE", "EXACT", "FUZZY", "HIGHERRANK"}

\* the JSON objects the endpoint may answer with; any field may be missing
MatchResponses ==
    [usageKey : Optional({1}),
     canonicalName : Optional(Strings),
     rank : Optional(Ranks),
     matchType : Optional(MatchTypes)]

NoResponse ==
    [usageKey |-> Absent, canonicalName |-> Absent, rank |-> Absent,
     matchType |-> Absent]

\* a from_api_response that reads matchType without a default
MatchTypeOfRaw(resp) == OrElse(resp.matchType, "")

\* api.py 102: data.get("matchType", "NONE")
MatchTypeOf(resp) == OrElse(resp.matchType, "NONE")

\* api.py 92-106
FromApiResponse(resp) ==
    [usage_key |-> OrElse(resp.usageKey, 0),
     canonical_name |-> OrElse(resp.canonicalName, <<>>),
     rank |-> OrElse(resp.rank, ""),
     match_type |-> MatchTypeOf(resp)]

NoMatch ==
    [usage_key |-> 0, canonical_name |-> <<>>, rank |-> "",
     match_type |-> ""]

\* an exception with what its message names
NoError ==
    [type |-> "none", kind |-> "", name |-> <<>>, actual_rank |-> "",
     canonical |-> <<>>, expected |-> ""]

\* api.py 322: "Taxon '{name}' not found in GBIF."
NotFoundError(name) ==
    [NoError EXCEPT !.type = "TaxonNotFoundError", !.kind = "not_found",
                    !.name = name]

\* api.py 328-331: "'{name}' matched as {match.rank}
\* ({match.canonical_name}), but expected {rank}. ..."
RankError(name, match, rank) ==
    [type |-> "TaxonNotFoundError", kind |-> "rank_mismatch", name |-> name,
     actual_rank |-> match.rank, canonical |-> match.canonical_name,
     expected |-> rank]

\* api.py 335-338: "'{name}' matched to '{match.canonical_name}'
\* ({match.rank}). ..."
NameError(name, match) ==
    [type |-> "TaxonNotFoundError", kind |-> "name_mismatch", name |-> name,
     actual_rank |-> match.rank, canonical |-> match.canonical_name,
     expected |-> ""]

\* an exception of _make_request, passed on unchanged
RequestError(e) == [NoError EXCEPT !.type = e, !.kind = "request"]

\* truth value of an optional text argument: None and "" are false
Truthy(o) == o # Absent /\ o[1] # ""

\* a match_taxon that validates whenever a rank is given
ValidatesAlways(strict, rank) == Truthy(rank)

\* api.py 326: if strict and rank
Validates(strict, rank) == strict /\ Truthy(rank)

\* a match_taxon that accepts any rank
RankMismatchNever(match, rank) == FALSE

\* api.py 327
RankMismatch(match, rank) == match.rank # rank

\* api.py 334
NameMismatch(match, name) == Lower(match.canonical_name) # Lower(name)

\* api.py 318-345: what match_taxon does with the response
MatchOutcome(name, rank, strict, resp) ==
    LET match == FromApiResponse(resp)
        Returned(m) == [pc |-> "returned", match |-> m, error |-> NoError]
        Raised(e) == [pc |-> "raised", match |-> NoMatch, error |-> e]
    IN  IF match.match_type = "NONE"
        THEN Raised(NotFoundError(name))
        ELSE IF Validates(strict, rank)
             THEN IF RankMismatch(match, rank[1])
                  THEN Raised(RankError(name, match, rank[1]))
                  ELSE IF NameMismatch(match, name)
                       THEN Raised(NameError(name, match))
                       ELSE Returned(match)
             ELSE Returned(match)

MatchFresh ==
    /\ mt_data = NoResponse
    /\ mt_match = NoMatch
    /\ mt_error = NoError

\* the names asked for: any non-empty text
TaxonNames == Strings \ {<<>>}

InitMatchVars ==
    /\ mt_pc = "call"
    /\ mt_name \in TaxonNames
    /\ mt_rank \in Optional({"GENUS", "FAMILY"})
    /\ mt_strict \in BOOLEAN
    /\ MatchFresh

\* api.py 311-345: one call of match_taxon
MatchTaxon ==
    /\ mt_pc = "call"
    /\ \/ \E e \in RequestErrors :
            /\ mt_pc' = "raised"
            /\ mt_error' = RequestError(e)
            /\ UNCHANGED <<mt_data, mt_match>>
       \/ \E resp \in MatchResponses :
            LET out == MatchOutcome(mt_name, mt_rank, mt_strict, resp)
            IN  /\ mt_data' = resp
                /\ mt_pc' = out.pc
                /\ mt_match' = out.match
                /\ mt_error' = out.error
    /\ UNCHANGED <<mt_name, mt_rank, mt_strict>>
    /\ UNCHANGED nonMatchVars

(***************************************************************************)
(* One download run: cli.run_download (cli.py 226-345) and the GUI worker  *)
(* _run_download (gui.py 324-424).  The client's calls are the             *)
(* environment: each returns or raises.                                    *)
(***************************************************************************)
Frontends == {"cli", "gui"}

\* how client.match_taxon can end
MatchEnds == {"returned", "TaxonNotFoundError"} \cup RequestErrors

\* how one advance of iter_occurrences_by_year can end
FetchEnds == {"record", "exhausted"} \cup RequestErrors

\* cli.py 256-258 and 338-340, gui.py 354-356 and 416-417: the outcome of
\* a run that an exception of the client ends
OutcomeOfError(exc) ==
    IF exc = "TaxonNotFoundError" THEN "no_taxon_match"
    ELSE IF IsInstance(exc, "GBIFError") THEN "api_error"
    ELSE "unexpected_error"

\* the generator has asked for a page
HasPage(requests) ==
    \E i \in 1..Len(requests) : requests[i] = "occurrence/search page"

DownloadFresh ==
    /\ dl_requests = <<>>
    /\ dl_taxon = FALSE
    /\ dl_total = 0
    /\ dl_processed = 0
    /\ dl_kept = 0
    /\ dl_stop = FALSE
    /\ dl_outcome = "running"

InitDownloadVars ==
    /\ dl_pc = "match"
    /\ dl_frontend \in Frontends
    /\ DownloadFresh

\* a run that goes on after a failed match
AbortsRunNever(end) == FALSE

\* cli.py 254-258 and 338-340, gui.py 350-356 and 416-420: an exception of
\* match_taxon leaves the try block; the handlers exit or return
AbortsRun(end) == end # "returned"

\* cli.py 250-263, gui.py 347-356: the taxon is matched once
DownloadMatch ==
    /\ dl_pc = "match"
    /\ dl_requests' = Append(dl_requests, "species/match")
    /\ \E end \in MatchEnds :
         /\ dl_taxon' = (end = "returned")
         /\ IF AbortsRun(end)
            THEN /\ dl_pc' = "ended"
                 /\ dl_outcome' = OutcomeOfError(end)
            ELSE /\ dl_pc' = "count"
                 /\ UNCHANGED dl_outcome
    /\ UNCHANGED <<dl_frontend, dl_total, dl_processed, dl_kept, dl_stop>>
    /\ UNCHANGED nonDownloadVars

\* cli.py 265-273, gui.py 358-362: the total is counted; the CLI ends the
\* run on a count of zero
DownloadCount ==
    /\ dl_pc = "count"
    /\ dl_requests' = Append(dl_requests, "occurrence/search count")
    /\ \/ \E e \in RequestErrors :
            /\ dl_pc' = "ended"
            /\ dl_outcome' = OutcomeOfError(e)
            /\ UNCHANGED dl_total
       \/ \E n \in 0..MaxRecords :
            /\ dl_total' = n
            /\ IF dl_frontend = "cli" /\ n = 0
               THEN /\ dl_pc' = "ended"
                    /\ dl_outcome' = "no_records_found"
               ELSE /\ dl_pc' = "fetch"
                    /\ UNCHANGED dl_outcome
    /\ UNCHANGED <<dl_frontend, dl_taxon, dl_processed, dl_kept, dl_stop>>
    /\ UNCHANGED nonDownloadVars

\* the requests one advance of the generator adds: its own count query and
\* the first page on the first advance, later a page or nothing
Advance(requests) ==
    IF HasPage(requests)
    THEN {requests, Append(requests, "occurrence/search page")}
    ELSE {requests \o <<"occurrence/search count">>,
          requests \o <<"occurrence/search count",
                        "occurrence/search page">>}

\* cli.py 303-316, gui.py 369-391: one iteration of the loop over the
\* records of iter_occurrences_by_year, the record filtered as it arrives
DownloadFetch ==
    /\ dl_pc = "fetch"
    /\ dl_requests' \in Advance(dl_requests)
    /\ \E end \in FetchEnds, keep \in BOOLEAN :
         CASE end = "record" ->
                /\ HasPage(dl_requests')
                /\ dl_processed < MaxRecords
                /\ IF dl_frontend = "gui" /\ dl_stop
                   THEN /\ dl_pc' = "finish"
                        /\ UNCHANGED <<dl_processed, dl_kept>>
                   ELSE /\ dl_pc' = "fetch"
                        /\ dl_processed' = dl_processed + 1
                        /\ dl_kept' = IF keep THEN dl_kept + 1 ELSE dl_kept
                /\ UNCHANGED dl_outcome
           [] end = "exhausted" ->
                /\ dl_pc' = "finish"
                /\ UNCHANGED <<dl_processed, dl_kept, dl_outcome>>
           [] OTHER ->
                /\ dl_pc' = "ended"
                /\ dl_outcome' = OutcomeOfError(end)
                /\ UNCHANGED <<dl_processed, dl_kept>>
    /\ UNCHANGED <<dl_frontend, dl_taxon, dl_total, dl_stop>>
    /\ UNCHANGED nonDownloadVars

\* cli.py 318-336, gui.py 393-414: the end of the run after the loop
DownloadFinish ==
    /\ dl_pc = "finish"
    /\ dl_pc' = "ended"
    /\ dl_outcome' =
         IF dl_kept = 0
         THEN IF dl_frontend = "gui" /\ dl_stop THEN "stopped"
              ELSE "no_records_passed"
         ELSE "exported"
    /\ UNCHANGED <<dl_frontend, dl_requests, dl_taxon, dl_total,
                   dl_processed, dl_kept, dl_stop>>
    /\ UNCHANGED nonDownloadVars

\* gui.py 318-322: Stop is pressed while the worker runs
StopPressed ==
    /\ dl_frontend = "gui"
    /\ dl_pc \notin {"idle", "ended"}
    /\ ~dl_stop
    /\ dl_stop' = TRUE
    /\ UNCHANGED <<dl_pc, dl_frontend, dl_requests, dl_taxon, dl_total,
                   dl_processed, dl_kept, dl_outcome>>
    /\ UNCHANGED nonDownloadVars

(***************************************************************************)
(* RecordFilter (filters.py 158-303) over a FilterConfig as its            *)
(* __post_init__ leaves it (filters.py 55-84).  An OccurrenceRecord        *)
(* (api.py 109-158) carries the fields the filter reads; a field the API   *)
(* left out is Absent.                                                     *)
(***************************************************************************)
\* a coordinateUncertaintyInMeters value as JSON gives it: a number, or a
\* text that may or may not spell a number
Number(n) == [text |-> FALSE, numeric |-> TRUE, n |-> n]
NumericText(n) == [text |-> TRUE, numeric |-> TRUE, n |-> n]
OtherText == [text |-> TRUE, numeric |-> FALSE, n |-> 0]

\* float(unc): the value, or a ValueError for a text that spells no number
Float(v) ==
    IF v.numeric THEN [raised |-> FALSE, value |-> v.n]
    ELSE [raised |-> TRUE, value |-> 0]

UncertaintyValues ==
    {Number(n) : n \in MaxUncertainty..(MaxUncertainty + 1)}
        \cup {NumericText(MaxUncertainty + 1), OtherText}

\* the years of the records: the two ends of the configured range and the
\* years next to them
RecordYears == {BaseYear - 1, BaseYear, CurrentYear, CurrentYear + 1}

\* the records fed to a filter whose checks are all in play
CheckRecords ==
    [key : Keys,
     year : Optional(RecordYears),
     elevation : Optional({0}),
     coordinate_uncertainty : Optional(UncertaintyValues),
     specific_epithet : Optional({<<"a">>}),
     scientific_name : {Absent},
     country : Optional({<<"A">>}),
     institution_code : Optional({<<"a">>}),
     malformed : {{}}]

\* the records fed to a filter that checks the species only; the epithet
\* is one letter at most, the scientific name any text
SpeciesRecords ==
    [key : {1},
     year : {Absent},
     elevation : {Absent},
     coordinate_uncertainty : {Absent},
     specific_epithet : Optional(SeqsUpTo(Chars, 1)),
     scientific_name : Optional(Strings),
     country : {Absent},
     institution_code : {Absent},
     malformed : {{}}]

\* the records fed to a filter that checks the country or the institution
\* only; the field checked is any text
PlaceRecords ==
    [key : {1},
     year : {Absent},
     elevation : {Absent},
     coordinate_uncertainty : {Absent},
     specific_epithet : {Absent},
     scientific_name : {Absent},
     country : Optional(Strings),
     institution_code : {Absent},
     malformed : {{}}]
    \cup
    [key : {1},
     year : {Absent},
     elevation : {Absent},
     coordinate_uncertainty : {Absent},
     specific_epithet : {Absent},
     scientific_name : {Absent},
     country : {Absent},
     institution_code : Optional(Strings),
     malformed : {{}}]

\* records built from a response whose values have unexpected types: a
\* year that is a text, a country or an institution code that is a number
\* other than zero
MalformedRecords ==
    [key : {1},
     year : Optional({BaseYear}),
     elevation : {Absent},
     coordinate_uncertainty : Optional({Number(MaxUncertainty), OtherText}),
     specific_epithet : {Absent},
     scientific_name : {Absent},
     country : Optional({<<"A">>}),
     institution_code : Optional({<<"a">>}),
     malformed : SUBSET {"year", "country", "institution_code"}]

\* the records fed to a filter that is reused after reset()
ReuseRecords ==
    [key : Keys,
     year : Optional({BaseYear}),
     elevation : {Absent},
     coordinate_uncertainty : {Absent},
     specific_epithet : {Absent},
     scientific_name : {Absent},
     country : {Absent},
     institution_code : {Absent},
     malformed : {{}}]

Feeds == {"checks", "species", "places", "malformed", "reuse"}

Records(feed) ==
    CASE feed = "species" -> SpeciesRecords
      [] feed = "places" -> PlaceRecords
      [] feed = "malformed" -> MalformedRecords
      [] feed = "reuse" -> ReuseRecords
      [] OTHER -> CheckRecords

NoRecord ==
    [key |-> 0, year |-> Absent, elevation |-> Absent,
     coordinate_uncertainty |-> Absent, specific_epithet |-> Absent,
     scientific_name |-> Absent, country |-> Absent,
     institution_code |-> Absent, malformed |-> {}]

\* filters.py 82-84: the lists hold trimmed non-empty entries, species and
\* institutions in lower case, countries in upper case
LowerEntries == {s \in Strings : s # <<>> /\ Lower(s) = s}

CheckConfigs ==
    [deduplicate : BOOLEAN,
     require_year : BOOLEAN,
     require_elevation : BOOLEAN,
     keep_unknown_uncertainty : BOOLEAN,
     year_start : {BaseYear},
     year_end : {CurrentYear},
     uncertainty_max : {MaxUncertainty},
     species_list : {<<>>, << <<"a">> >>},
     countries : {<<>>, << <<"A">> >>},
     institutions : {<<>>, << <<"a">> >>}]

SpeciesConfigs ==
    [deduplicate : {FALSE},
     require_year : {FALSE},
     require_elevation : {FALSE},
     keep_unknown_uncertainty : {TRUE},
     year_start : {BaseYear},
     year_end : {CurrentYear},
     uncertainty_max : {MaxUncertainty},
     species_list : SeqsUpTo(LowerEntries, 2),
     countries : {<<>>},
     institutions : {<<>>}]

\* filters.py 83: the entries of countries are in upper case
UpperEntries == {s \in Strings : s # <<>> /\ Upper(s) = s}

PlaceConfigs ==
    [deduplicate : {FALSE},
     require_year : {FALSE},
     require_elevation : {FALSE},
     keep_unknown_uncertainty : {TRUE},
     year_start : {BaseYear},
     year_end : {CurrentYear},
     uncertainty_max : {MaxUncertainty},
     species_list : {<<>>},
     countries : SeqsUpTo(UpperEntries, 2),
     institutions : {<<>>}]
    \cup
    [deduplicate : {FALSE},
     require_year : {FALSE},
     require_elevation : {FALSE},
     keep_unknown_uncertainty : {TRUE},
     year_start : {BaseYear},
     year_end : {CurrentYear},
     uncertainty_max : {MaxUncertainty},
     species_list : {<<>>},
     countries : {<<>>},
     institutions : SeqsUpTo(LowerEntries, 2)]

MalformedConfigs ==
    [deduplicate : {TRUE},
     require_year : BOOLEAN,
     require_elevation : {FALSE},
     keep_unknown_uncertainty : BOOLEAN,
     year_start : {BaseYear},
     year_end : {CurrentYear},
     uncertainty_max : {MaxUncertainty},
     species_list : {<<>>},
     countries : {<<>>, << <<"A">> >>},
     institutions : {<<>>, << <<"a">> >>}]

ReuseConfigs ==
    [deduplicate : BOOLEAN,
     require_year : {TRUE},
     require_elevation : {FALSE},
     keep_unknown_uncertainty : {TRUE},
     year_start : {BaseYear},
     year_end : {CurrentYear},
     uncertainty_max : {MaxUncertainty},
     species_list : {<<>>},
     countries : {<<>>},
     institutions : {<<>>}]

Configs(feed) ==
    CASE feed = "species" -> SpeciesConfigs
      [] feed = "places" -> PlaceConfigs
      [] feed = "malformed" -> MalformedConfigs
      [] feed = "reuse" -> ReuseConfigs
      [] OTHER -> CheckConfigs

\* FilterResult (filters.py 142-155): uncertainty_status defaults to known
Kept(status) ==
    [keep |-> TRUE, reason |-> None, uncertainty_status |-> status]
\* a drop that gives no reason
DroppedSilently(reason, status) ==
    [keep |-> FALSE, reason |-> None, uncertainty_status |-> status]
DroppedWith(reason, status) ==
    [keep |-> FALSE, reason |-> reason, uncertainty_status |-> status]
Dropped(reason) == DroppedWith(reason, "known")
NoResult == [keep |-> FALSE, reason |-> "", uncertainty_status |-> ""]

\* apply left by an exception instead of a FilterResult
Raises(exception) ==
    [keep |-> FALSE, reason |-> exception, uncertainty_status |-> "raised"]
IsRaised(result) == result.uncertainty_status = "raised"

\* the elements of a list
Range(q) == {q[i] : i \in 1..Len(q)}

\* a filter that forgets the keys it saw
RememberNothing(key, seen) == seen

\* filters.py 202
Remember(key, seen) == seen \cup {key}

\* a filter that never misses a year
MissingYearNever(rec, cfg) == FALSE

\* filters.py 205
MissingYear(rec, cfg) == cfg.require_year /\ rec.year = Absent

\* a range check that rejects the first year of the range
YearTooOldInclusive(y, cfg) == y <= cfg.year_start

\* filters.py 209
YearTooOld(y, cfg) == y < cfg.year_start

\* filters.py 211
YearTooNew(y, cfg) == cfg.year_end # 0 /\ y > cfg.year_end

\* a limit that excludes the bound itself
WithinLimitStrict(value, max) == value < max

\* filters.py 269
WithinLimit(value, max) == value <= max

\* filters.py 253-275
CheckUncertainty(rec, cfg) ==
    IF rec.coordinate_uncertainty = Absent THEN "unknown"
    ELSE LET f == Float(rec.coordinate_uncertainty[1])
         IN  IF f.raised THEN "unknown"
             ELSE IF WithinLimit(f.value, cfg.uncertainty_max)
                  THEN "known" ELSE "exceeded"

\* a species check that reads the epithet only
MatchesEpithetOnly(rec, species_set) ==
    Lower(OrElse(rec.specific_epithet, <<>>)) \in species_set

\* filters.py 277-294
MatchesSpecies(rec, species_set) ==
    LET epithet == Lower(OrElse(rec.specific_epithet, <<>>))
        sci_name == Lower(OrElse(rec.scientific_name, <<>>))
    IN  \/ epithet \in species_set
        \/ \E species \in species_set : Contains(species, sci_name)

\* a country check that compares the letters as they are
MatchesCountryExact(rec, countries) ==
    LET country == OrElse(rec.country, <<>>)
    IN  \E c \in Range(countries) : Contains(c, country)

\* filters.py 240-242
MatchesCountry(rec, countries) ==
    LET country == Upper(OrElse(rec.country, <<>>))
    IN  \E c \in Range(countries) : Contains(c, country)

\* filters.py 247-248
MatchesInstitution(rec, institutions) ==
    LET inst == Lower(OrElse(rec.institution_code, <<>>))
    IN  \E i \in Range(institutions) : Contains(i, inst)

\* filters.py 198-251: the FilterResult of apply(rec) for a filter whose
\* configuration is cfg and whose _seen_keys is seen.  Ordering a text
\* against year_start (209) raises TypeError; a number has no upper() (240)
\* and no lower() (247), which raises AttributeError.
ApplyResult(rec, cfg, seen) ==
    LET uncertainty_status == CheckUncertainty(rec, cfg)
        species_set == Range(cfg.species_list)
    IN  IF cfg.deduplicate /\ rec.key \in seen
        THEN Dropped("duplicate")
        ELSE IF MissingYear(rec, cfg)
        THEN Dropped("missing_year")
        ELSE IF rec.year # Absent /\ "year" \in rec.malformed
        THEN Raises("TypeError")
        ELSE IF rec.year # Absent /\ YearTooOld(rec.year[1], cfg)
        THEN Dropped("year_too_old")
        ELSE IF rec.year # Absent /\ YearTooNew(rec.year[1], cfg)
        THEN Dropped("year_too_new")
        ELSE IF cfg.require_elevation /\ rec.elevation = Absent
        THEN Dropped("missing_elevation")
        ELSE IF uncertainty_status = "exceeded"
        THEN DroppedWith("uncertainty_exceeded", uncertainty_status)
        ELSE IF /\ uncertainty_status = "unknown"
                /\ ~cfg.keep_unknown_uncertainty
        THEN DroppedWith("uncertainty_unknown", uncertainty_status)
        ELSE IF species_set # {} /\ ~MatchesSpecies(rec, species_set)
        THEN Dropped("species_not_matched")
        ELSE IF /\ cfg.countries # <<>>
                /\ rec.country # Absent
                /\ "country" \in rec.malformed
        THEN Raises("AttributeError")
        ELSE IF /\ cfg.countries # <<>>
                /\ ~MatchesCountry(rec, cfg.countries)
        THEN Dropped("country_not_matched")
        ELSE IF /\ cfg.institutions # <<>>
                /\ rec.institution_code # Absent
                /\ "institution_code" \in rec.malformed
        THEN Raises("AttributeError")
        ELSE IF /\ cfg.institutions # <<>>
                /\ ~MatchesInstitution(rec, cfg.institutions)
        THEN Dropped("institution_not_matched")
        ELSE Kept(uncertainty_status)

\* a filter that marks a key only when it keeps the record
SeenAfterKept(rec, cfg, seen) ==
    IF cfg.deduplicate /\ ApplyResult(rec, cfg, seen).keep
    THEN seen \cup {rec.key}
    ELSE seen

\* filters.py 199-202: _seen_keys when apply(rec) returns
SeenAfter(rec, cfg, seen) ==
    IF cfg.deduplicate /\ rec.key \notin seen
    THEN Remember(rec.key, seen)
    ELSE seen

FilterFresh ==
    /\ rf_seen = {}
    /\ rf_record = NoRecord
    /\ rf_before = {}
    /\ rf_result = NoResult
    /\ rf_applied = {}
    /\ rf_raised = None
    /\ rf_cleared = {}

\* filters.py 175-186
InitFilterVars ==
    /\ rf_pc = "next"
    /\ rf_feed \in Feeds
    /\ rf_config \in Configs(rf_feed)
    /\ FilterFresh

\* filters.py 188-251: one call of apply, on the next record of the caller
Apply ==
    /\ rf_pc = "next"
    /\ \E rec \in Records(rf_feed) :
         LET result == ApplyResult(rec, rf_config, rf_seen)
         IN  /\ rf_record' = rec
             /\ rf_seen' = SeenAfter(rec, rf_config, rf_seen)
             /\ IF IsRaised(result)
                THEN /\ rf_raised' = result.reason
                     /\ rf_pc' = "raised"
                     /\ UNCHANGED rf_result
                ELSE /\ rf_result' = result
                     /\ rf_pc' = "result"
                     /\ UNCHANGED rf_raised
    /\ rf_before' = rf_seen
    /\ UNCHANGED <<rf_feed, rf_config, rf_applied, rf_cleared>>
    /\ UNCHANGED nonFilterVars

\* filters.py 338-352, cli.py 310-316: the caller takes the result and
\* goes on to its next record
TakeResult ==
    /\ rf_pc = "result"
    /\ rf_pc' = "next"
    /\ rf_record' = NoRecord
    /\ rf_before' = {}
    /\ rf_result' = NoResult
    /\ rf_applied' = rf_applied \cup {rf_record.key}
    /\ UNCHANGED <<rf_feed, rf_config, rf_seen, rf_raised, rf_cleared>>
    /\ UNCHANGED nonFilterVars

\* a reset that leaves the keys in place
ClearedNot(seen) == seen

\* filters.py 298: _seen_keys.clear()
Cleared(seen) == {}

\* filters.py 296-298: reset(), called between two calls of apply by a
\* caller that reuses the filter
Reset ==
    /\ rf_pc = "next"
    /\ rf_feed = "reuse"
    /\ rf_seen' = Cleared(rf_seen)
    /\ rf_applied' = {}
    /\ rf_cleared' = rf_cleared \cup rf_seen
    /\ UNCHANGED <<rf_pc, rf_feed, rf_config, rf_record, rf_before,
                   rf_result, rf_raised>>
    /\ UNCHANGED nonFilterVars

\* filters.py 300-303
seen_count == Cardinality(rf_seen)

(***************************************************************************)
(* FilterConfig.__post_init__ (filters.py 55-84) with validate_year,       *)
(* validate_positive_int and clean_string_list (utils.py 130-206).  The    *)
(* arguments are typed as the dataclass declares them; the boolean fields, *)
(* which __post_init__ does not touch, are left out.                       *)
(***************************************************************************)
\* the characters of a raw list entry: letters, the blank and the comma
RawChars == {"a", "B", " ", ","}

\* a list argument: None, a comma separated text, or a list of texts
NoneArg == [kind |-> "none", text |-> <<>>, items |-> <<>>]
TextArg(t) == [kind |-> "str", text |-> t, items |-> <<>>]
ListArg(l) == [kind |-> "list", text |-> <<>>, items |-> l]

RawEntries == SeqsUpTo(RawChars, MaxStr)
ListArgs ==
    {NoneArg} \cup {TextArg(t) : t \in SeqsUpTo(RawChars, MaxText)}
        \cup {ListArg(l) : l \in SeqsUpTo(RawEntries, 2)}

\* str.strip(), by its two halves
StripLeft(s) ==
    LET lead == {i \in 0..Len(s) : \A j \in 1..i : s[j] = " "}
        a == CHOOSE i \in lead : \A k \in lead : k <= i
    IN  SubSeq(s, a + 1, Len(s))

StripRight(s) ==
    LET trail == {i \in 0..Len(s) : \A j \in (Len(s) - i + 1)..Len(s) :
                                      s[j] = " "}
        b == CHOOSE i \in trail : \A k \in trail : k <= i
    IN  SubSeq(s, 1, Len(s) - b)

Strip(s) == StripRight(StripLeft(s))

\* str.split(","): one more piece than there are commas
RECURSIVE Split(_)
Split(s) ==
    LET commas == {i \in 1..Len(s) : s[i] = ","}
    IN  IF commas = {} THEN <<s>>
        ELSE LET i == CHOOSE c \in commas : \A d \in commas : c <= d
             IN  <<SubSeq(s, 1, i - 1)>> \o Split(SubSeq(s, i + 1, Len(s)))

\* utils.py 206: the comprehension, on a list of texts
RECURSIVE CleanItems(_)
CleanItems(items) ==
    IF items = <<>> THEN <<>>
    ELSE LET item == Head(items)
         IN  IF item # <<>> /\ Strip(item) # <<>>
             THEN <<Lower(Strip(item))>> \o CleanItems(Tail(items))
             ELSE CleanItems(Tail(items))

\* utils.py 185-206
clean_string_list(arg) ==
    CASE arg.kind = "none" -> <<>>
      [] arg.kind = "str" -> CleanItems(Split(arg.text))
      [] OTHER -> CleanItems(arg.items)

\* filters.py 83
UpperAll(items) == [i \in 1..Len(items) |-> Upper(items[i])]

\* the years handed to the constructor
YearArgs ==
    {-1, 0, MIN_YEAR - 1, MIN_YEAR, DEFAULT_YEAR_START, BaseYear,
     CurrentYear, CurrentYear + 1, CurrentYear + 2}

\* genus and family: None, the empty text or a name
TaxonArgs == Optional({<<>>, <<"a">>})

\* constructions that vary the taxonomy, the years and the uncertainty
PlainArgs ==
    [genus : TaxonArgs,
     family : TaxonArgs,
     year_start : YearArgs,
     year_end : Optional(YearArgs),
     uncertainty_max : {-1, 0, MaxUncertainty},
     species_list : {ListArg(<<>>)},
     countries : {ListArg(<<>>)},
     institutions : {ListArg(<<>>)}]

\* constructions that vary one of the lists
ListedArgs ==
    [genus : {Some(<<"a">>)},
     family : {Absent},
     year_start : {DEFAULT_YEAR_START},
     year_end : {Absent},
     uncertainty_max : {MaxUncertainty},
     species_list : ListArgs,
     countries : {ListArg(<<>>)},
     institutions : {ListArg(<<>>)}]
    \cup
    [genus : {Some(<<"a">>)},
     family : {Absent},
     year_start : {DEFAULT_YEAR_START},
     year_end : {Absent},
     uncertainty_max : {MaxUncertainty},
     species_list : {ListArg(<<>>)},
     countries : ListArgs,
     institutions : {ListArg(<<>>)}]
    \cup
    [genus : {Some(<<"a">>)},
     family : {Absent},
     year_start : {DEFAULT_YEAR_START},
     year_end : {Absent},
     uncertainty_max : {MaxUncertainty},
     species_list : {ListArg(<<>>)},
     countries : {ListArg(<<>>)},
     institutions : ListArgs]

ConfigArgs == PlainArgs \cup ListedArgs

NoArgs ==
    [genus |-> Absent, family |-> Absent, year_start |-> 0,
     year_end |-> Absent, uncertainty_max |-> 0,
     species_list |-> NoneArg, countries |-> NoneArg,
     institutions |-> NoneArg]

NoConfig ==
    [genus |-> Absent, family |-> Absent, year_start |-> 0, year_end |-> 0,
     uncertainty_max |-> 0, species_list |-> <<>>, countries |-> <<>>,
     institutions |-> <<>>]

\* `not x` for a text that may be None
Empty(o) == o = Absent \/ o[1] = <<>>

\* a construction that takes one of genus and family only
TaxonomyExclusive(args) == Empty(args.genus) = Empty(args.family)

\* filters.py 58
TaxonomyMissing(args) == Empty(args.genus) /\ Empty(args.family)

\* a year_start that is validated whatever its value
YearStartGivenAlways(y) == TRUE

\* filters.py 62: `if self.year_start:`
YearStartGiven(y) == y # 0

\* filters.py 65: `if self.year_end:`
YearEndGiven(o) == o # Absent /\ o[1] # 0

\* utils.py 130-157: the message of the ValueError, or None
validate_year(y) ==
    IF y < MIN_YEAR THEN "must be >= 1700"
    ELSE IF y > CurrentYear + 1 THEN "cannot be in the future"
    ELSE None

\* utils.py 160-182, with allow_zero=True
validate_positive_int(value) ==
    IF value < 0 THEN "must be >= 0" ELSE None

\* filters.py 55-84: the error raised, or the fields of the instance
PostInitOutcome(args) ==
    LET end == IF YearEndGiven(args.year_end)
               THEN args.year_end[1] ELSE CurrentYear
        Error(msg) == [error |-> msg, config |-> NoConfig]
    IN  IF TaxonomyMissing(args)
        THEN Error("Either genus or family must be specified")
        ELSE IF /\ YearStartGiven(args.year_start)
                /\ validate_year(args.year_start) # None
        THEN Error(validate_year(args.year_start))
        ELSE IF /\ YearEndGiven(args.year_end)
                /\ validate_year(args.year_end[1]) # None
        THEN Error(validate_year(args.year_end[1]))
        ELSE IF args.year_start > end
        THEN Error("year_start cannot be after year_end")
        ELSE IF validate_positive_int(args.uncertainty_max) # None
        THEN Error(validate_positive_int(args.uncertainty_max))
        ELSE [error |-> None,
              config |->
                [genus |-> args.genus,
                 family |-> args.family,
                 year_start |-> args.year_start,
                 year_end |-> end,
                 uncertainty_max |-> args.uncertainty_max,
                 species_list |-> clean_string_list(args.species_list),
                 countries |-> UpperAll(clean_string_list(args.countries)),
                 institutions |-> clean_string_list(args.institutions)]]

ConfigFresh ==
    /\ fc_config = NoConfig
    /\ fc_error = None

InitConfigVars ==
    /\ fc_pc = "new"
    /\ fc_args \in ConfigArgs
    /\ ConfigFresh

\* filters.py 55-84: the dataclass constructor runs __post_init__
PostInit ==
    /\ fc_pc = "new"
    /\ LET out == PostInitOutcome(fc_args)
       IN  /\ fc_error' = out.error
           /\ fc_config' = out.config
           /\ fc_pc' = IF out.error = None THEN "built" ELSE "raised"
    /\ UNCHANGED fc_args
    /\ UNCHANGED nonConfigVars

(***************************************************************************)
(* filter_records (filters.py 306-354).  The argument list is taken one    *)
(* record at a time; it ends after MaxBatch records at most.             *)
(***************************************************************************)
\* the records of a batch: the year is absent only on a record whose
\* uncertainty is within the limit; the records that fail the range, the
\* elevation, the species, the country or the institution check bear the
\* identifier 1
BatchRecords ==
    [key : 1..MaxBatch,
     year : {Some(BaseYear)},
     elevation : {Some(0)},
     coordinate_uncertainty :
         Optional({Number(MaxUncertainty), Number(MaxUncertainty + 1)}),
     specific_epithet : {Absent},
     scientific_name : {Absent},
     country : {Absent},
     institution_code : {Absent},
     malformed : {{}}]
    \cup
    [key : 1..MaxBatch,
     year : {Absent},
     elevation : {Some(0)},
     coordinate_uncertainty : {Some(Number(MaxUncertainty))},
     specific_epithet : {Absent},
     scientific_name : {Absent},
     country : {Absent},
     institution_code : {Absent},
     malformed : {{}}]
    \cup
    [key : {1},
     year : {Some(BaseYear - 1), Some(CurrentYear + 1)},
     elevation : {Some(0)},
     coordinate_uncertainty : {Some(Number(MaxUncertainty))},
     specific_epithet : {Absent},
     scientific_name : {Absent},
     country : {Absent},
     institution_code : {Absent},
     malformed : {{}}]
    \cup
    [key : {1},
     year : {Some(BaseYear)},
     elevation : {Absent},
     coordinate_uncertainty : {Some(Number(MaxUncertainty))},
     specific_epithet : {Absent},
     scientific_name : {Absent},
     country : {Absent},
     institution_code : {Absent},
     malformed : {{}}]
    \cup
    [key : {1},
     year : {Some(BaseYear)},
     elevation : {Some(0)},
     coordinate_uncertainty : {Some(Number(MaxUncertainty))},
     specific_epithet : {Some(<<"a">>)},
     scientific_name : {Absent},
     country : Optional({<<"A">>}),
     institution_code : Optional({<<"a">>}),
     malformed : {{}}]

BatchConfigs ==
    [deduplicate : BOOLEAN,
     require_year : {TRUE},
     require_elevation : {TRUE},
     keep_unknown_uncertainty : BOOLEAN,
     year_start : {BaseYear},
     year_end : {CurrentYear},
     uncertainty_max : {MaxUncertainty},
     species_list : {<<>>},
     countries : {<<>>},
     institutions : {<<>>}]
    \cup
    [deduplicate : {FALSE},
     require_year : {TRUE},
     require_elevation : {TRUE},
     keep_unknown_uncertainty : {FALSE},
     year_start : {BaseYear},
     year_end : {CurrentYear},
     uncertainty_max : {MaxUncertainty},
     species_list : {<< <<"a">> >>},
     countries : {<< <<"A">> >>},
     institutions : {<< <<"a">> >>}]

\* filters.py 322-336
StatKeys ==
    {"total", "kept", "duplicate", "missing_year", "year_too_old",
     "year_too_new", "missing_elevation", "uncertainty_exceeded",
     "uncertainty_unknown_kept", "uncertainty_unknown_dropped",
     "species_not_matched", "country_not_matched",
     "institution_not_matched"}
NoStats == [k \in StatKeys |-> 0]

\* stats[key] += 1 for each key of the set
Count(stats, keys) ==
    [k \in StatKeys |-> IF k \in keys THEN stats[k] + 1 ELSE stats[k]]

\* a batch that puts each kept record in front
KeepRecordFirst(filtered, rec) == <<rec>> \o filtered

\* filters.py 343
KeepRecord(filtered, rec) == Append(filtered, rec)

\* a count that knows the listed reasons only
CountedListed(result) ==
    IF result.keep THEN {"kept"} ELSE {result.reason} \cap StatKeys

\* filters.py 342-352: the counters that the result of apply increments
Counted(result) ==
    IF result.keep
    THEN {"kept"} \cup (IF result.uncertainty_status = "unknown"
                        THEN {"uncertainty_unknown_kept"} ELSE {})
    ELSE ({result.reason} \cap StatKeys)
            \cup (IF result.reason = "uncertainty_unknown"
                  THEN {"uncertainty_unknown_dropped"} ELSE {})

BatchFresh ==
    /\ fr_records = <<>>
    /\ fr_seen = {}
    /\ fr_filtered = <<>>
    /\ fr_stats = NoStats

\* filters.py 320-336
InitBatchVars ==
    /\ fr_pc = "loop"
    /\ fr_config \in BatchConfigs
    /\ BatchFresh

\* filters.py 338-352: one iteration of the loop over the records
FilterNext ==
    /\ fr_pc = "loop"
    /\ Len(fr_records) < MaxBatch
    /\ \E rec \in BatchRecords :
         LET result == ApplyResult(rec, fr_config, fr_seen)
         IN  /\ fr_records' = Append(fr_records, rec)
             /\ fr_seen' = SeenAfter(rec, fr_config, fr_seen)
             /\ IF IsRaised(result)
                THEN /\ fr_pc' = "raised"
                     /\ fr_stats' = Count(fr_stats, {"total"})
                     /\ UNCHANGED fr_filtered
                ELSE /\ fr_stats' =
                          Count(fr_stats, {"total"} \cup Counted(result))
                     /\ fr_filtered' = IF result.keep
                                       THEN KeepRecord(fr_filtered, rec)
                                       ELSE fr_filtered
                     /\ UNCHANGED fr_pc
    /\ UNCHANGED fr_config
    /\ UNCHANGED nonBatchVars

\* filters.py 338 and 354: the list is exhausted and the pair is returned
FilterReturn ==
    /\ fr_pc = "loop"
    /\ fr_pc' = "returned"
    /\ UNCHANGED <<fr_config, fr_records, fr_seen, fr_filtered, fr_stats>>
    /\ UNCHANGED nonBatchVars

(***************************************************************************)
(* iter_occurrences (api.py 386-460), the single-query generator.  Its     *)
(* locals are held in the variables of the same name of the year-by-year   *)
(* generator: offset, data, count, and total in total_estimate, which is   *)
(* Absent while total is None.  seen_keys, year and polls are not used.    *)
(***************************************************************************)
\* the pages of the search endpoint with the count they report, 0 standing
\* for a response without one (api.py 435: data.get("count", 0))
SingleResponses ==
    IF scripted
    THEN IF served < Len(script) THEN {script[served + 1]} ELSE {}
    ELSE {[results |-> d.results, endOfRecords |-> d.endOfRecords,
           count |-> c] :
             d \in ApiResponses(page_size, offset, bucket_size, index_keys),
             c \in {0, bucket_size}}

\* a loop that also ends on a short page, as the year-by-year one does
SingleEndsOnShort(d, ps) == d.endOfRecords \/ Len(d.results) < ps

\* api.py 448
SingleEnds(d, ps) == d.endOfRecords

\* api.py 446: the arguments of progress_callback
SingleCall(k, total) == [count |-> k, total |-> total]

\* api.py 432-440: one page request; _make_request is outside any try block
SingleRequest ==
    /\ pc = "request"
    /\ last_req' = RequestOf(year, offset, page_size)
    /\ n_requests' = n_requests + 1
    /\ served' = IF scripted THEN served + 1 ELSE served
    /\ \/ \E d \in SingleResponses :
            /\ data' = d
            /\ idx' = 0
            /\ last_outcome' = "response"
            /\ IF total_estimate = Absent
               THEN /\ total_estimate' = Some(d.count)
                    /\ last_log' = Log("info", "Found total occurrences")
               ELSE UNCHANGED <<total_estimate, last_log>>
            /\ pc' = IF d.results = <<>> THEN "done" ELSE "items"
            /\ UNCHANGED raised
       \/ \E e \in RaisableErrors :
            /\ last_outcome' = e
            /\ raised' = e
            /\ pc' = "raised"
            /\ UNCHANGED <<data, idx, total_estimate, last_log>>
    /\ UNCHANGED <<runVars, req_years, any_ok, any_err, year, offset,
                   seen_keys, count, callbacks, yielded, stopped, polls>>
    /\ UNCHANGED nonFetchVars

\* api.py 442-460: the generator runs from one yield to the next, or to the
\* next request, or to its end; it is suspended at the yield while idx > 0
SingleNextItem ==
    /\ pc = "items"
    /\ LET resumed == idx > 0
           counted == IF resumed THEN count + 1 ELSE count
       IN  /\ count' = counted
           /\ callbacks' =
                IF resumed /\ has_callback
                THEN Reported(callbacks,
                              SingleCall(counted, total_estimate[1]))
                ELSE callbacks
           /\ IF idx < Len(data.results)
              THEN /\ yielded' = Append(yielded, data.results[idx + 1])
                   /\ idx' = idx + 1
                   /\ UNCHANGED <<pc, offset, last_log>>
              ELSE /\ UNCHANGED <<yielded, idx>>
                   /\ IF SingleEnds(data, page_size)
                      THEN /\ pc' = "done"
                           /\ UNCHANGED <<offset, last_log>>
                      ELSE /\ offset' = NextOffset(offset, page_size)
                           /\ IF CeilingReached(offset')
                              THEN /\ last_log' =
                                        Log("warning",
                                            "Reached GBIF offset limit")
                                   /\ pc' = "done"
                              ELSE /\ pc' = "request"
                                   /\ UNCHANGED last_log
    /\ UNCHANGED <<runVars, histVars, total_estimate, year, data, seen_keys,
                   raised, stopped, polls, served, n_requests>>
    /\ UNCHANGED nonFetchVars

\* the consumer leaves its loop while the generator is suspended at the
\* yield: the generator is closed where it stands
SingleAbandon ==
    /\ pc = "items"
    /\ idx > 0
    /\ pc' = "closed"
    /\ UNCHANGED <<runVars, histVars, total_estimate, year, offset, data,
                   idx, seen_keys, count, callbacks, yielded, raised,
                   last_log, stopped, polls, served, n_requests>>
    /\ UNCHANGED nonFetchVars

(***************************************************************************)
(* The GUI (gui.py 281-424).  _start_download and _stop_download are       *)
(* callbacks of the Start and Stop buttons and run in the main thread, a   *)
(* button taking a click only while its state is normal; _run_download     *)
(* runs in a worker thread, one thread per download started.  The threads  *)
(* interleave statement by statement.  Each year of the worker's request   *)
(* holds MaxPages pages at most and the run takes MaxRecords records at    *)
(* most.                                                                   *)
(***************************************************************************)
Workers == 1..MaxRuns

\* gui.py 92-93, 234-246: the window before any download
GuiFresh ==
    /\ gui_is_downloading = FALSE
    /\ gui_stop_event = FALSE
    /\ gui_download_btn = "normal"
    /\ gui_stop_btn = "disabled"
    /\ gui_started = 0
    /\ gui_pc = [w \in Workers |-> "unstarted"]
    /\ gui_client = [w \in Workers |-> "none"]
    /\ gui_late = [w \in Workers |-> 0]
    /\ gui_year = [w \in Workers |-> 0]
    /\ gui_page = [w \in Workers |-> 0]
    /\ gui_processed = [w \in Workers |-> 0]
    /\ gui_kept = [w \in Workers |-> 0]
    /\ gui_exit = [w \in Workers |-> "none"]

sharedVars == <<gui_is_downloading, gui_stop_event, gui_download_btn,
                gui_stop_btn, gui_started>>

\* gui.py 281-316: a click on Start.  The callback returns at once while a
\* download runs (283-284) and when the input is not valid (286-303)
start_download ==
    /\ gui_download_btn = "normal"
    /\ gui_started < MaxRuns
    /\ IF gui_is_downloading
       THEN UNCHANGED guiVars
       ELSE \/ UNCHANGED guiVars
            \/ /\ gui_is_downloading' = TRUE
               /\ gui_stop_event' = FALSE
               /\ gui_download_btn' = "disabled"
               /\ gui_stop_btn' = "normal"
               /\ gui_started' = gui_started + 1
               /\ gui_pc' = [gui_pc EXCEPT ![gui_started + 1] = "config"]
               /\ UNCHANGED <<gui_client, gui_late, gui_year, gui_page,
                              gui_processed, gui_kept, gui_exit>>
    /\ UNCHANGED nonGuiVars

\* gui.py 318-322: a click on Stop
stop_download ==
    /\ gui_stop_btn = "normal"
    /\ gui_stop_event' = (gui_is_downloading \/ gui_stop_event)
    /\ UNCHANGED <<gui_is_downloading, gui_download_btn, gui_stop_btn,
                   gui_started, gui_pc, gui_client, gui_late, gui_year,
                   gui_page, gui_processed, gui_kept, gui_exit>>
    /\ UNCHANGED nonGuiVars

\* a request that worker w issues now: it is late when the flag is set
Issued(w) ==
    [gui_late EXCEPT ![w] = @ + (IF gui_stop_event THEN 1 ELSE 0)]

\* worker w leaves the try block of _run_download on the given path
Leaves(w, path) ==
    /\ gui_exit' = [gui_exit EXCEPT ![w] = path]
    /\ gui_pc' = [gui_pc EXCEPT ![w] = "finally"]

\* worker w goes on inside the try block
GoesTo(w, position) ==
    /\ gui_pc' = [gui_pc EXCEPT ![w] = position]
    /\ UNCHANGED gui_exit

\* gui.py 326-346: the FilterConfig is built, which raises ValueError for
\* arguments it rejects, and then the client with its session
WorkerConfig ==
    \E w \in Workers :
      /\ gui_pc[w] = "config"
      /\ \/ /\ GoesTo(w, "match")
            /\ gui_client' = [gui_client EXCEPT ![w] = "open"]
         \/ /\ Leaves(w, "unexpected_error")
            /\ UNCHANGED gui_client
      /\ UNCHANGED <<sharedVars, gui_late, gui_year, gui_page,
                     gui_processed, gui_kept>>
      /\ UNCHANGED nonGuiVars

\* gui.py 348-356 and 416-417: match_taxon; the handler of
\* TaxonNotFoundError returns
WorkerMatch ==
    \E w \in Workers :
      /\ gui_pc[w] = "match"
      /\ gui_late' = Issued(w)
      /\ \E end \in MatchEnds :
           IF end = "returned" THEN GoesTo(w, "count")
           ELSE Leaves(w, OutcomeOfError(end))
      /\ UNCHANGED <<sharedVars, gui_client, gui_year, gui_page,
                     gui_processed, gui_kept>>
      /\ UNCHANGED nonGuiVars

\* gui.py 358-362: count_occurrences
WorkerCount ==
    \E w \in Workers :
      /\ gui_pc[w] = "count"
      /\ gui_late' = Issued(w)
      /\ \/ GoesTo(w, "estimate")
         \/ \E e \in RequestErrors : Leaves(w, OutcomeOfError(e))
      /\ UNCHANGED <<sharedVars, gui_client, gui_year, gui_page,
                     gui_processed, gui_kept>>
      /\ UNCHANGED nonGuiVars

\* the generator of worker w goes to its next year
NextYear(w) ==
    /\ gui_year' = [gui_year EXCEPT ![w] = @ + 1]
    /\ gui_page' = [gui_page EXCEPT ![w] = 0]
    /\ GoesTo(w, "for")

\* gui.py 369-374 over api.py 494-540: the generator runs up to its next
\* yield, with stop_event.is_set as its stop_check: the count query, the
\* poll of the for loop, the poll of the while loop, a page request
WorkerAdvance ==
    \E w \in Workers :
      /\ CASE gui_pc[w] = "estimate" ->
                /\ gui_late' = Issued(w)
                /\ \/ GoesTo(w, "for")
                   \/ \E e \in RequestErrors : Leaves(w, OutcomeOfError(e))
                /\ UNCHANGED <<gui_year, gui_page>>
           [] gui_pc[w] = "for" ->
                /\ IF gui_year[w] = MaxYears \/ gui_stop_event
                   THEN GoesTo(w, "after")
                   ELSE GoesTo(w, "while")
                /\ UNCHANGED <<gui_late, gui_year, gui_page>>
           [] gui_pc[w] = "while" ->
                /\ IF gui_stop_event
                   THEN NextYear(w)
                   ELSE /\ GoesTo(w, "page")
                        /\ UNCHANGED <<gui_year, gui_page>>
                /\ UNCHANGED gui_late
           [] gui_pc[w] = "page" ->
                /\ gui_late' = Issued(w)
                /\ \/ \E e \in RequestErrors :
                        IF CaughtInYear(e) THEN NextYear(w)
                        ELSE /\ Leaves(w, OutcomeOfError(e))
                             /\ UNCHANGED <<gui_year, gui_page>>
                   \/ NextYear(w)
                   \/ /\ gui_processed[w] < MaxRecords
                      /\ gui_page' = [gui_page EXCEPT ![w] = @ + 1]
                      /\ GoesTo(w, "record")
                      /\ UNCHANGED gui_year
           [] OTHER -> FALSE
      /\ UNCHANGED <<sharedVars, gui_client, gui_processed, gui_kept>>
      /\ UNCHANGED nonGuiVars

\* gui.py 375-391 over api.py 542-566: the body of the loop on the record
\* yielded, and the generator's run to what follows it: another record of
\* the page, the next page, or the next year.  apply raises on a malformed
\* record
WorkerRecord ==
    \E w \in Workers :
      /\ gui_pc[w] = "record"
      /\ IF gui_stop_event
         THEN /\ GoesTo(w, "after")
              /\ UNCHANGED <<gui_processed, gui_kept, gui_year, gui_page>>
         ELSE \/ /\ Leaves(w, "unexpected_error")
                 /\ UNCHANGED <<gui_processed, gui_kept, gui_year, gui_page>>
              \/ /\ gui_processed' = [gui_processed EXCEPT ![w] = @ + 1]
                 /\ \E keep \in BOOLEAN :
                      gui_kept' = [gui_kept EXCEPT
                                     ![w] = @ + (IF keep THEN 1 ELSE 0)]
                 /\ \/ /\ gui_processed'[w] < MaxRecords
                       /\ GoesTo(w, "record")
                       /\ UNCHANGED <<gui_year, gui_page>>
                    \/ /\ gui_page[w] < MaxPages
                       /\ GoesTo(w, "while")
                       /\ UNCHANGED <<gui_year, gui_page>>
                    \/ NextYear(w)
      /\ UNCHANGED <<sharedVars, gui_client, gui_late>>
      /\ UNCHANGED nonGuiVars

\* gui.py 393-414: the session is closed after the loop; the run ends as
\* stopped, as empty, or with the file saved
WorkerAfterLoop ==
    \E w \in Workers :
      /\ gui_pc[w] = "after"
      /\ gui_client' = [gui_client EXCEPT ![w] = "closed"]
      /\ Leaves(w, IF gui_stop_event THEN "stopped"
                   ELSE IF gui_kept[w] = 0 THEN "no_records_passed"
                   ELSE "exported")
      /\ UNCHANGED <<sharedVars, gui_late, gui_year, gui_page,
                     gui_processed, gui_kept>>
      /\ UNCHANGED nonGuiVars

\* gui.py 421-424: the three statements of the finally block, one at a
\* time; the block uses none of the locals of the try block, which are
\* dropped here, and the session of the client stays as it is
WorkerFinally ==
    \E w \in Workers :
      /\ CASE gui_pc[w] = "finally" ->
                /\ gui_is_downloading' = FALSE
                /\ gui_pc' = [gui_pc EXCEPT ![w] = "finally_download_btn"]
                /\ UNCHANGED <<gui_download_btn, gui_stop_btn>>
           [] gui_pc[w] = "finally_download_btn" ->
                /\ gui_download_btn' = "normal"
                /\ gui_pc' = [gui_pc EXCEPT ![w] = "finally_stop_btn"]
                /\ UNCHANGED <<gui_is_downloading, gui_stop_btn>>
           [] gui_pc[w] = "finally_stop_btn" ->
                /\ gui_stop_btn' = "disabled"
                /\ gui_pc' = [gui_pc EXCEPT ![w] = "ended"]
                /\ UNCHANGED <<gui_is_downloading, gui_download_btn>>
           [] OTHER -> FALSE
      /\ IF gui_pc[w] = "finally"
         THEN /\ gui_late' = [gui_late EXCEPT ![w] = 0]
              /\ gui_year' = [gui_year EXCEPT ![w] = 0]
              /\ gui_page' = [gui_page EXCEPT ![w] = 0]
              /\ gui_processed' = [gui_processed EXCEPT ![w] = 0]
              /\ gui_kept' = [gui_kept EXCEPT ![w] = 0]
         ELSE UNCHANGED <<gui_late, gui_year, gui_page, gui_processed,
                          gui_kept>>
      /\ gui_exit' = IF gui_pc'[w] = "ended"
                     THEN [gui_exit EXCEPT ![w] = "none"]
                     ELSE gui_exit
      /\ UNCHANGED <<gui_stop_event, gui_started, gui_client>>
      /\ UNCHANGED nonGuiVars

(***************************************************************************)
(* The specifications.  Each runs one component; the variables of the      *)
(* others keep the values given here.                                      *)
(***************************************************************************)
FetchIdle ==
    /\ pc = "idle"
    /\ FetchFresh
    /\ polls = <<>>
    /\ page_size_arg = DEFAULT_PAGE_SIZE
    /\ page_size = CapPageSize(page_size_arg)
    /\ bucket_size = 0
    /\ year_start = BaseYear
    /\ year_end = BaseYear
    /\ year = BaseYear
    /\ has_stop_check = FALSE
    /\ has_callback = FALSE
    /\ index_keys = Keys
    /\ scripted = FALSE
    /\ script = <<>>

RetryIdle ==
    /\ rb_pc = "idle"
    /\ rb_max_retries = 0
    /\ rb_initial_delay = 1
    /\ rb_backoff_factor = 1
    /\ RetryFresh

RequestIdle ==
    /\ RequestFresh
    /\ mr_pc = "idle"
    /\ mr_endpoint = "species/match"
    /\ mr_max_retries = 0

MatchIdle ==
    /\ mt_pc = "idle"
    /\ mt_name = <<"a">>
    /\ mt_rank = Absent
    /\ mt_strict = TRUE
    /\ MatchFresh

DownloadIdle ==
    /\ dl_pc = "idle"
    /\ dl_frontend = "cli"
    /\ DownloadFresh

FilterIdle ==
    /\ rf_pc = "idle"
    /\ rf_feed = "checks"
    /\ rf_config \in {c \in CheckConfigs :
                        /\ c.deduplicate /\ c.require_year
                        /\ c.require_elevation /\ c.keep_unknown_uncertainty
                        /\ c.species_list = <<>> /\ c.countries = <<>>
                        /\ c.institutions = <<>>}
    /\ FilterFresh

ConfigIdle ==
    /\ fc_pc = "idle"
    /\ fc_args = NoArgs
    /\ ConfigFresh

GuiIdle == GuiFresh

BatchIdle ==
    /\ fr_pc = "idle"
    /\ fr_config \in {c \in BatchConfigs :
                        c.deduplicate /\ c.keep_unknown_uncertainty}
    /\ BatchFresh

Next ==
    \/ CountQuery
    \/ ForHead
    \/ WhileHead
    \/ MakeRequest
    \/ NextItem
    \/ Abandon

\* a call against year buckets of at most MaxBucket records
Init ==
    /\ InitFetch(PageSizeArgs, MaxBucket)
    /\ has_stop_check \in BOOLEAN
    /\ has_callback \in BOOLEAN
    /\ index_keys = Keys
    /\ scripted = FALSE
    /\ script = <<>>
    /\ RetryIdle
    /\ RequestIdle
    /\ MatchIdle
    /\ DownloadIdle
    /\ FilterIdle
    /\ ConfigIdle
    /\ BatchIdle
    /\ GuiIdle

Spec == Init /\ [][Next]_vars

\* a call against year buckets that exceed the offset ceiling, every
\* record of the index bearing the same identifier
InitCeiling ==
    /\ InitFetch({DEFAULT_PAGE_SIZE + 200}, MAX_OFFSET + GBIF_MAX_LIMIT)
    /\ has_stop_check \in BOOLEAN
    /\ has_callback = TRUE
    /\ index_keys = {1}
    /\ scripted = FALSE
    /\ script = <<>>
    /\ RetryIdle
    /\ RequestIdle
    /\ MatchIdle
    /\ DownloadIdle
    /\ FilterIdle
    /\ ConfigIdle
    /\ BatchIdle
    /\ GuiIdle

SpecCeiling == InitCeiling /\ [][Next]_vars

\* the generator alone: a consumer that takes every record and never leaves
\* its loop
NextConsumed ==
    \/ CountQuery
    \/ ForHead
    \/ WhileHead
    \/ MakeRequest
    \/ NextItem

\* fully consumed calls without cancellation, against small buckets with
\* small pages and against buckets that exceed the offset ceiling
InitConsumed ==
    /\ \/ InitFetch({1, MaxLen}, MaxBucket) /\ index_keys = Keys
       \/ /\ InitFetch({DEFAULT_PAGE_SIZE + 200},
                        MAX_OFFSET + GBIF_MAX_LIMIT)
          /\ index_keys = {1}
          /\ year_end = year_start
    /\ has_stop_check = FALSE
    /\ has_callback = FALSE
    /\ scripted = FALSE
    /\ script = <<>>
    /\ RetryIdle
    /\ RequestIdle
    /\ MatchIdle
    /\ DownloadIdle
    /\ FilterIdle
    /\ ConfigIdle
    /\ BatchIdle
    /\ GuiIdle

\* each request returns or fails and the consumer keeps asking: a step of
\* the generator that can be taken is taken
SpecConsumed ==
    InitConsumed /\ [][NextConsumed]_vars /\ WF_vars(NextConsumed)

\* a single-year call against a mocked _make_request that serves a count
\* and then two pages, the second with endOfRecords = true
TwoPageScripts ==
    {<<[results |-> r1, endOfRecords |-> FALSE],
       [results |-> r2, endOfRecords |-> TRUE]>> :
        r1 \in SeqsUpTo(Keys, MaxLen), r2 \in SeqsUpTo(Keys, MaxLen)}

InitTwoPages ==
    /\ InitFetch(SmallPageSizes, MaxBucket)
    /\ year_end = year_start
    /\ has_stop_check = FALSE
    /\ has_callback = TRUE
    /\ index_keys = Keys
    /\ scripted = TRUE
    /\ script \in TwoPageScripts
    /\ RetryIdle
    /\ RequestIdle
    /\ MatchIdle
    /\ DownloadIdle
    /\ FilterIdle
    /\ ConfigIdle
    /\ BatchIdle
    /\ GuiIdle

SpecTwoPages == InitTwoPages /\ [][Next]_vars

\* CeilDiv(MAX_OFFSET, GBIF_MAX_LIMIT) + 1 pages of one record that do not
\* say they are the last
LongScript ==
    [i \in 1..(((MAX_OFFSET + GBIF_MAX_LIMIT - 1) \div GBIF_MAX_LIMIT) + 1)
        |-> [results |-> <<1>>, endOfRecords |-> FALSE, count |-> MAX_OFFSET]]

\* tests/test_api.py 215-225: the side_effect list of test_iter_occurrences
TestScript ==
    <<[results |-> <<1, 2>>, endOfRecords |-> TRUE, count |-> 2]>>

NextSingle ==
    \/ SingleRequest
    \/ SingleNextItem
    \/ SingleAbandon

\* api.py 412-430: a call of iter_occurrences against a small index, against
\* the mock of its test, and against an index that never ends
InitSingle ==
    /\ pc = "request"
    /\ total_estimate = Absent
    /\ offset = 0
    /\ data = NoData
    /\ idx = 0
    /\ seen_keys = {}
    /\ count = 0
    /\ yielded = <<>>
    /\ callbacks = <<>>
    /\ raised = None
    /\ last_log = Log("none", "")
    /\ last_req = NoReq
    /\ last_outcome = "none"
    /\ req_years = {}
    /\ n_requests = 0
    /\ stopped = FALSE
    /\ served = 0
    /\ any_ok = FALSE
    /\ any_err = FALSE
    /\ polls = <<>>
    /\ year_start = BaseYear
    /\ year_end = BaseYear
    /\ year = BaseYear
    /\ has_stop_check = FALSE
    /\ has_callback \in BOOLEAN
    /\ index_keys = Keys
    /\ \/ /\ page_size_arg \in SmallPageSizes
          /\ bucket_size = MaxBucket
          /\ scripted = FALSE
          /\ script = <<>>
       \/ /\ page_size_arg = MaxLen
          /\ bucket_size = MaxLen
          /\ scripted = TRUE
          /\ script = TestScript
       \/ /\ page_size_arg = DEFAULT_PAGE_SIZE + 200
          /\ bucket_size = MAX_OFFSET + GBIF_MAX_LIMIT
          /\ scripted = TRUE
          /\ script = LongScript
    /\ page_size = CapPageSize(page_size_arg)
    /\ RetryIdle
    /\ RequestIdle
    /\ MatchIdle
    /\ DownloadIdle
    /\ FilterIdle
    /\ ConfigIdle
    /\ BatchIdle
    /\ GuiIdle

SpecSingle == InitSingle /\ [][NextSingle]_vars

NextRetry ==
    \/ RetryLoop
    \/ RetryCall
    \/ RetrySleep

InitRetry ==
    /\ InitRetryVars
    /\ FetchIdle
    /\ RequestIdle
    /\ MatchIdle
    /\ DownloadIdle
    /\ FilterIdle
    /\ ConfigIdle
    /\ BatchIdle
    /\ GuiIdle

SpecRetry == InitRetry /\ [][NextRetry]_vars

NextRequest ==
    \/ SessionSend
    \/ HandleResponse

InitRequest ==
    /\ InitRequestVars
    /\ FetchIdle
    /\ RetryIdle
    /\ MatchIdle
    /\ DownloadIdle
    /\ FilterIdle
    /\ ConfigIdle
    /\ BatchIdle
    /\ GuiIdle

SpecRequest == InitRequest /\ [][NextRequest]_vars

NextMatch == MatchTaxon

InitMatch ==
    /\ InitMatchVars
    /\ FetchIdle
    /\ RetryIdle
    /\ RequestIdle
    /\ DownloadIdle
    /\ FilterIdle
    /\ ConfigIdle
    /\ BatchIdle
    /\ GuiIdle

SpecMatch == InitMatch /\ [][NextMatch]_vars

NextDownload ==
    \/ DownloadMatch
    \/ DownloadCount
    \/ DownloadFetch
    \/ DownloadFinish
    \/ StopPressed

InitDownload ==
    /\ InitDownloadVars
    /\ FetchIdle
    /\ RetryIdle
    /\ RequestIdle
    /\ MatchIdle
    /\ FilterIdle
    /\ ConfigIdle
    /\ BatchIdle
    /\ GuiIdle

SpecDownload == InitDownload /\ [][NextDownload]_vars

NextFilter ==
    \/ Apply
    \/ TakeResult
    \/ Reset

InitFilter ==
    /\ InitFilterVars
    /\ FetchIdle
    /\ RetryIdle
    /\ RequestIdle
    /\ MatchIdle
    /\ DownloadIdle
    /\ ConfigIdle
    /\ BatchIdle
    /\ GuiIdle

SpecFilter == InitFilter /\ [][NextFilter]_vars

NextConfig == PostInit

InitConfig ==
    /\ InitConfigVars
    /\ FetchIdle
    /\ RetryIdle
    /\ RequestIdle
    /\ MatchIdle
    /\ DownloadIdle
    /\ FilterIdle
    /\ BatchIdle
    /\ GuiIdle

SpecConfig == InitConfig /\ [][NextConfig]_vars

NextBatch ==
    \/ FilterNext
    \/ FilterReturn

InitBatch ==
    /\ InitBatchVars
    /\ FetchIdle
    /\ RetryIdle
    /\ RequestIdle
    /\ MatchIdle
    /\ DownloadIdle
    /\ FilterIdle
    /\ ConfigIdle
    /\ GuiIdle

SpecBatch == InitBatch /\ [][NextBatch]_vars

NextGui ==
    \/ start_download
    \/ stop_download
    \/ WorkerConfig
    \/ WorkerMatch
    \/ WorkerCount
    \/ WorkerAdvance
    \/ WorkerRecord
    \/ WorkerAfterLoop
    \/ WorkerFinally

InitGui ==
    /\ GuiFresh
    /\ FetchIdle
    /\ RetryIdle
    /\ RequestIdle
    /\ MatchIdle
    /\ DownloadIdle
    /\ FilterIdle
    /\ ConfigIdle
    /\ BatchIdle

SpecGui == InitGui /\ [][NextGui]_vars

(***************************************************************************)
(* Properties.                                                             *)
(***************************************************************************)
RECURSIVE DedupSeq(_)
\* a sequence with every element kept at its first occurrence only
DedupSeq(q) ==
    IF q = <<>> THEN <<>>
    ELSE LET front == DedupSeq(SubSeq(q, 1, Len(q) - 1))
             last == q[Len(q)]
         IN  IF \E i \in 1..Len(front) : front[i] = last
             THEN front ELSE Append(front, last)

\* no poll since the last request returned true
NoTruePoll == \A i \in 1..Len(polls) : ~polls[i]

\* the generator has ended, normally or by raising
Ended == pc \in {"done", "raised"}

\* C1: within one call of iter_occurrences_by_year no two yielded records
\* have the same identifier, whatever pages the API returns.
C1_NoDuplicateYield ==
    \A i, j \in 1..Len(yielded) : i # j => yielded[i] # yielded[j]

\* a page of a later year held only identifiers already yielded and was
\* skipped in full
C1_Witness ==
    /\ pc \in {"for", "while"}
    /\ last_outcome = "response"
    /\ data.results # <<>>
    /\ idx = 0
    /\ last_req.year > year_start
    /\ yielded # <<>>

\* C2: absent cancellation, when the generator has ended (the count query
\* having succeeded) a page request was issued for every year of
\* year_start..year_end and for no other year.
C2_EveryYearRequested ==
    (Ended /\ ~stopped /\ ~(pc = "raised" /\ last_req = NoReq))
        => req_years = year_start..year_end

\* C2, the part about each request: the years requested ascend, the first
\* request of a year has offset 0, every request carries the loop's year and
\* limit = min(configured page size, 300).
C2_RequestsInOrder ==
    [][pc = "request" =>
         /\ last_req'.year = year
         /\ last_req'.year \in year_start..year_end
         /\ last_req'.year >= last_req.year
         /\ last_req'.year # last_req.year => last_req'.offset = 0
         /\ last_req'.limit = Min(page_size_arg, 300)]_vars

\* C3: within one year, no page is requested after a response that reports
\* endOfRecords or holds fewer results than the page size; after any other
\* response the generator moves to offset + page size and requests it,
\* unless that offset reaches the ceiling, which ends the year.
C3_PageAdvance ==
    /\ [][(pc = "request" /\ last_req'.year = last_req.year) =>
             /\ last_outcome = "response"
             /\ ~data.endOfRecords
             /\ Len(data.results) >= page_size
             /\ last_req'.offset = last_req.offset + page_size
             /\ last_req'.offset < MAX_OFFSET]_vars
    /\ [][(pc = "items" /\ pc' \notin {"items", "closed"}) =>
             IF data.endOfRecords \/ Len(data.results) < page_size
                \/ offset + page_size >= MAX_OFFSET
             THEN pc' = "for" /\ year' = year + 1
             ELSE /\ pc' = "while"
                  /\ year' = year
                  /\ offset' = offset + page_size]_vars
    /\ [][pc = "request" => last_req' = RequestOf(year, offset, page_size)]_vars

\* a second page of a year was requested, came back short, and the year
\* was left
C3_Witness ==
    /\ pc = "for"
    /\ last_outcome = "response"
    /\ last_req.offset = page_size
    /\ data.results # <<>>
    /\ Len(data.results) < page_size
    /\ ~data.endOfRecords
    /\ year = last_req.year + 1

\* C4 as stated: for a single-year fetch served two pages, the second
\* with endOfRecords = true, the generator yields the records of both pages
\* in page order, each identifier once, whatever the first page's length.
C4_TwoPagesAnyFirst ==
    pc = "done" =>
        yielded = DedupSeq(script[1].results \o script[2].results)

\* C4 amended: the same, provided the first page holds at least page-size
\* records; both pages are then requested.
C4_TwoPagesFullFirst ==
    (pc = "done" /\ Len(script[1].results) >= page_size) =>
        /\ served = 2
        /\ yielded = DedupSeq(script[1].results \o script[2].results)

\* both pages were fetched and an identifier of the first page that came
\* again on the second was yielded once
C4_Witness ==
    /\ pc = "done"
    /\ served = 2
    /\ Len(script[1].results) = page_size
    /\ Len(yielded) >= 2
    /\ \E i \in 1..Len(script[2].results) :
          \E j \in 1..Len(script[1].results) :
             script[2].results[i] = script[1].results[j]

\* C5: once a poll of stop_check has returned true, no page request is
\* issued, no record is yielded and nothing is raised, whatever the later
\* polls return.
C5_StopIsFinal ==
    [][stopped =>
         /\ pc # "request"
         /\ yielded' = yielded
         /\ raised' = None]_vars

\* C6: a page request of year y that fails with APIError does not leave
\* the generator: a warning is logged, the records yielded and the dedup
\* set are unchanged, the loop moves to year y + 1, and unless a poll
\* returns true the next request is for year y + 1 at offset 0.
C6_APIErrorEndsYearOnly ==
    /\ [][(pc = "request" /\ last_outcome' = "APIError") =>
             /\ raised' = None
             /\ pc' = "for"
             /\ year' = year + 1
             /\ last_log' = Log("warning", "Error fetching year")
             /\ yielded' = yielded
             /\ seen_keys' = seen_keys
             /\ count' = count]_vars
    /\ [][(pc = "request" /\ last_outcome = "APIError" /\ NoTruePoll) =>
             last_req' = RequestOf(last_req.year + 1, 0, page_size)]_vars
    /\ [](last_outcome = "APIError" /\ NoTruePoll =>
             \/ pc = "for" /\ year = last_req.year + 1
             \/ pc \in {"while", "request"} /\ year = last_req.year + 1
                  /\ offset = 0
             \/ pc = "done" /\ last_req.year >= year_end)

\* after a failed request of one year, with records already yielded, the
\* first request of the next year is about to be issued
C6_Witness ==
    /\ pc = "request"
    /\ last_outcome = "APIError"
    /\ year = last_req.year + 1
    /\ yielded # <<>>
    /\ NoTruePoll

\* C7: a page request that ends with RateLimitError is handled like any
\* other per-year fetch error: a warning is logged, the year is left, the
\* generator does not raise.
C7_RateLimitEndsYearOnly ==
    [][(pc = "request" /\ last_outcome' = "RateLimitError") =>
         /\ raised' = None
         /\ pc' = "for"
         /\ year' = year + 1
         /\ last_log' = Log("warning", "Error fetching year")]_vars

\* C8: a run in which every page request ended in an error, and which
\* therefore yielded nothing, hands the last error to its caller.
C8_LastErrorSurfaced ==
    (Ended /\ count = 0 /\ any_err /\ ~any_ok) => raised # None

C10_AtMostNPlusOneCalls ==
    rb_max_retries >= 0 =>
        LET calls == Len(rb_outcomes)
            last == IF calls = 0 THEN "none" ELSE rb_outcomes[calls]
        IN  /\ calls <= rb_max_retries + 1
            /\ \A i \in 1..(calls - 1) : rb_outcomes[i] = "listed"
            /\ rb_pc = "returned" <=> last = "ok"
            /\ last = "unlisted" => rb_pc = "raised"
            /\ (last = "listed" /\ calls = rb_max_retries + 1)
                   => rb_pc = "raised"
            /\ rb_pc = "raised" =>
                   /\ rb_raised = [call |-> calls, kind |-> last]
                   /\ last = "listed" => calls = rb_max_retries + 1

\* the third listed failure in a row was re-raised with max_retries = 2
C10_Witness ==
    /\ rb_pc = "raised"
    /\ rb_max_retries = 2
    /\ rb_raised = [call |-> 3, kind |-> "listed"]
    /\ rb_sleeps # <<>>


(***************************************************************************)
(* Properties of match_taxon.                                              *)
(***************************************************************************)
\* match_taxon has ended after the endpoint answered
Answered ==
    \/ mt_pc = "returned"
    \/ mt_pc = "raised" /\ mt_error.kind # "request"

\* the response's match type is NONE, or the field is missing
AnsweredNone == mt_data.matchType \in {Absent, Some("NONE")}

\* C11: match_taxon raises TaxonNotFoundError whenever the response's match
\* type is NONE or the field is absent, with strict on or off, so a
\* TaxonMatch it returns never has match type NONE.
C11_NoneIsNotFound ==
    /\ (Answered /\ AnsweredNone) =>
          /\ mt_pc = "raised"
          /\ mt_error.type = "TaxonNotFoundError"
    /\ mt_pc = "returned" => mt_match.match_type # "NONE"

C11_Witness ==
    /\ mt_pc = "raised"
    /\ mt_data.matchType = Absent
    /\ mt_data.canonicalName = Some(mt_name)
    /\ ~mt_strict
    /\ mt_error = NotFoundError(mt_name)

\* C12: in strict mode with an expected rank, a returned rank that differs
\* from it makes match_taxon raise TaxonNotFoundError with a message that
\* names the returned rank; this is the error reported also when the
\* canonical name mismatches as well.
C12_RankMismatchReported ==
    ( /\ Answered
      /\ ~AnsweredNone
      /\ mt_strict
      /\ mt_rank # Absent
      /\ OrElse(mt_data.rank, "") # mt_rank[1] ) =>
        /\ mt_pc = "raised"
        /\ mt_error.type = "TaxonNotFoundError"
        /\ mt_error.kind = "rank_mismatch"
        /\ mt_error.actual_rank = OrElse(mt_data.rank, "")

C12_Witness ==
    /\ mt_pc = "raised"
    /\ mt_strict
    /\ mt_rank = Some("GENUS")
    /\ mt_data.rank = Some("FAMILY")
    /\ mt_data.matchType = Some("HIGHERRANK")
    /\ Lower(OrElse(mt_data.canonicalName, <<>>)) # Lower(mt_name)
    /\ mt_error.kind = "rank_mismatch"
    /\ mt_error.actual_rank = "FAMILY"

C14_NonStrictReturns ==
    (Answered /\ ~AnsweredNone /\ ~mt_strict) =>
        /\ mt_pc = "returned"
        /\ mt_error = NoError
        /\ mt_match.match_type = mt_data.matchType[1]
        /\ mt_match.rank = OrElse(mt_data.rank, "")
        /\ mt_match.canonical_name = OrElse(mt_data.canonicalName, <<>>)
        /\ mt_match.usage_key = OrElse(mt_data.usageKey, 0)

C14_Witness ==
    /\ mt_pc = "returned"
    /\ ~mt_strict
    /\ mt_rank = Some("GENUS")
    /\ mt_match.rank = "SPECIES"
    /\ Lower(mt_match.canonical_name) # Lower(mt_name)
    /\ mt_match.match_type = "FUZZY"

(***************************************************************************)
(* Properties of a download run.                                           *)
(***************************************************************************)
\* the occurrence-search requests among those made
OccurrenceRequests ==
    {i \in 1..Len(dl_requests) :
        dl_requests[i] \in {"occurrence/search count",
                            "occurrence/search page"}}

\* C15: a download run issues no occurrence-search request, count or page,
\* unless match_taxon has returned; the match is asked once, and a
\* TaxonNotFoundError ends the run with no occurrence request made.
C15_NoFetchBeforeMatch ==
    /\ OccurrenceRequests # {} =>
          /\ dl_taxon
          /\ dl_requests[1] = "species/match"
    /\ Cardinality({i \in 1..Len(dl_requests) :
                      dl_requests[i] = "species/match"}) <= 1
    /\ dl_outcome = "no_taxon_match" =>
          /\ dl_pc = "ended"
          /\ ~dl_taxon
          /\ dl_requests = <<"species/match">>
    /\ (dl_pc = "ended" /\ ~dl_taxon) => OccurrenceRequests = {}

C15_Witness ==
    /\ dl_pc = "ended"
    /\ dl_outcome = "no_taxon_match"
    /\ dl_requests = <<"species/match">>

(***************************************************************************)
(* Properties of RecordFilter.apply.  The conditions below are those of    *)
(* the filter specification, stated on the record handed to apply, the     *)
(* configuration and the keys applied before.                              *)
(***************************************************************************)
\* apply has returned and the caller holds the result
Applied == rf_pc = "result"

\* the order in which the checks are specified
ReasonOrder ==
    <<"duplicate", "missing_year", "year_too_old", "year_too_new",
      "missing_elevation", "uncertainty_exceeded", "uncertainty_unknown",
      "species_not_matched", "country_not_matched",
      "institution_not_matched">>

\* the uncertainty of the record is a number, and its value
UncertaintyIsNumber ==
    /\ rf_record.coordinate_uncertainty # Absent
    /\ rf_record.coordinate_uncertainty[1].numeric
UncertaintyNumber == rf_record.coordinate_uncertainty[1].n

\* some listed species is the record's epithet, or occurs in its
\* scientific name, letter case apart
SpeciesListed ==
    \E i \in 1..Len(rf_config.species_list) :
        LET sp == Lower(rf_config.species_list[i])
        IN  \/ sp = Lower(OrElse(rf_record.specific_epithet, <<>>))
            \/ Contains(sp, Lower(OrElse(rf_record.scientific_name, <<>>)))

\* the check that drops with the given reason fails on the record
Fails(reason) ==
    CASE reason = "duplicate" ->
           rf_config.deduplicate /\ rf_record.key \in rf_applied
      [] reason = "missing_year" ->
           rf_config.require_year /\ rf_record.year = Absent
      [] reason = "year_too_old" ->
           rf_record.year # Absent /\ rf_record.year[1] < rf_config.year_start
      [] reason = "year_too_new" ->
           rf_record.year # Absent /\ rf_record.year[1] > rf_config.year_end
      [] reason = "missing_elevation" ->
           rf_config.require_elevation /\ rf_record.elevation = Absent
      [] reason = "uncertainty_exceeded" ->
           UncertaintyIsNumber
               /\ UncertaintyNumber > rf_config.uncertainty_max
      [] reason = "uncertainty_unknown" ->
           ~UncertaintyIsNumber /\ ~rf_config.keep_unknown_uncertainty
      [] reason = "species_not_matched" ->
           rf_config.species_list # <<>> /\ ~SpeciesListed
      [] reason = "country_not_matched" ->
           /\ rf_config.countries # <<>>
           /\ \A i \in 1..Len(rf_config.countries) :
                ~Contains(Upper(rf_config.countries[i]),
                          Upper(OrElse(rf_record.country, <<>>)))
      [] reason = "institution_not_matched" ->
           /\ rf_config.institutions # <<>>
           /\ \A i \in 1..Len(rf_config.institutions) :
                ~Contains(Lower(rf_config.institutions[i]),
                          Lower(OrElse(rf_record.institution_code, <<>>)))

\* the positions in ReasonOrder of the checks that fail
Failing == {i \in 1..Len(ReasonOrder) : Fails(ReasonOrder[i])}

\* every check before the one at position i passes
PassesBefore(i) == \A j \in Failing : j >= i

\* C16: apply returns the reason of the first failing check in the order
\* duplicate, missing_year, year_too_old / year_too_new, missing_elevation,
\* uncertainty_exceeded, uncertainty_unknown, species_not_matched,
\* country_not_matched, institution_not_matched, and keeps the record when
\* no check fails.
C16_FirstFailingCheck ==
    Applied =>
        IF Failing = {}
        THEN rf_result.keep /\ rf_result.reason = None
        ELSE /\ ~rf_result.keep
             /\ \E i \in Failing :
                  /\ PassesBefore(i)
                  /\ rf_result.reason = ReasonOrder[i]

\* a record that lacks year and elevation, both required and several later
\* checks failing too, is dropped as missing_year
C16_Witness ==
    /\ Applied
    /\ Cardinality(Failing) >= 3
    /\ Fails("missing_year")
    /\ Fails("missing_elevation")
    /\ rf_result = Dropped("missing_year")

\* C17: with deduplication enabled, an identifier is kept at its first
\* application (the other checks passing) and dropped as duplicate at any
\* later one; with deduplication disabled the result does not depend on the
\* earlier applications and the seen set stays unchanged.
C17_SecondIsDuplicate ==
    Applied =>
        IF rf_config.deduplicate
        THEN IF rf_record.key \in rf_applied
             THEN rf_result = Dropped("duplicate")
             ELSE /\ rf_result.reason # "duplicate"
                  /\ Failing = {} => rf_result.keep
        ELSE /\ rf_result.reason # "duplicate"
             /\ rf_seen = rf_before
             /\ rf_seen = {}
             /\ rf_result = ApplyResult(rf_record, rf_config, {})

C17_Witness ==
    /\ Applied
    /\ rf_config.deduplicate
    /\ rf_record.key \in rf_applied
    /\ Failing = {1}
    /\ rf_result = Dropped("duplicate")

\* the checks before the uncertainty check pass
PassesBeforeUncertainty == PassesBefore(6)

\* C18: the earlier checks passing, an uncertainty equal to uncertainty_max
\* is classified known and not dropped by the uncertainty check, one above
\* it is dropped with uncertainty_exceeded, and an absent or non-numeric one
\* is classified unknown and dropped with uncertainty_unknown exactly when
\* keep_unknown_uncertainty is false.
C18_UncertaintyBound ==
    (Applied /\ PassesBeforeUncertainty) =>
        IF UncertaintyIsNumber
        THEN IF UncertaintyNumber <= rf_config.uncertainty_max
             THEN /\ rf_result.reason \notin
                        {"uncertainty_exceeded", "uncertainty_unknown"}
                  /\ rf_result.uncertainty_status = "known"
                  /\ Failing = {} => rf_result.keep
             ELSE rf_result =
                    DroppedWith("uncertainty_exceeded", "exceeded")
        ELSE IF rf_config.keep_unknown_uncertainty
             THEN /\ rf_result.reason \notin
                        {"uncertainty_exceeded", "uncertainty_unknown"}
                  /\ rf_result.keep => rf_result.uncertainty_status = "unknown"
             ELSE rf_result = DroppedWith("uncertainty_unknown", "unknown")

C18_Witness ==
    /\ Applied
    /\ PassesBeforeUncertainty
    /\ rf_record.coordinate_uncertainty = Some(Number(rf_config.uncertainty_max))
    /\ rf_result = Kept("known")

\* C19: the record not being a duplicate, a present year is dropped with
\* year_too_old iff it is below year_start and with year_too_new iff it is
\* above year_end; an absent year that is not required is dropped by none
\* of the year checks and the later checks decide.
C19_YearRange ==
    (Applied /\ ~Fails("duplicate")) =>
        IF rf_record.year # Absent
        THEN /\ rf_result.reason = "year_too_old"
                    <=> rf_record.year[1] < rf_config.year_start
             /\ rf_result.reason = "year_too_new"
                    <=> rf_record.year[1] > rf_config.year_end
             /\ rf_result.reason # "missing_year"
        ELSE IF rf_config.require_year
             THEN rf_result = Dropped("missing_year")
             ELSE /\ rf_result.reason \notin
                        {"missing_year", "year_too_old", "year_too_new"}
                  /\ Fails("missing_elevation") =>
                        rf_result = Dropped("missing_elevation")
                  /\ Failing = {} => rf_result.keep

C19_Witness ==
    /\ Applied
    /\ rf_record.year = Some(rf_config.year_start)
    /\ rf_config.year_start < rf_config.year_end
    /\ rf_result.keep

\* C20: the earlier checks passing, with a non-empty species list a record
\* is dropped with species_not_matched iff no listed species equals its
\* epithet or occurs in its scientific name (letter case apart); with an
\* empty list the species check drops nothing.
C20_SpeciesCheck ==
    (Applied /\ PassesBefore(8)) =>
        IF rf_config.species_list # <<>>
        THEN rf_result.reason = "species_not_matched" <=> ~SpeciesListed
        ELSE rf_result.reason # "species_not_matched"

\* a record without epithet whose scientific name contains a listed species
C20_Witness ==
    /\ Applied
    /\ rf_config.species_list # <<>>
    /\ rf_record.specific_epithet = Absent
    /\ rf_record.scientific_name # Absent
    /\ Len(rf_record.scientific_name[1]) > Len(rf_config.species_list[1])
    /\ Lower(rf_record.scientific_name[1]) # rf_record.scientific_name[1]
    /\ SpeciesListed
    /\ rf_result.keep

(***************************************************************************)
(* Properties of the allow-lists, of malformed records and of reset().     *)
(***************************************************************************)
\* some listed country occurs in the record's country, letter case apart;
\* an absent country holds no entry
CountryListed ==
    /\ rf_record.country # Absent
    /\ \E i \in 1..Len(rf_config.countries) :
         Contains(Lower(rf_config.countries[i]), Lower(rf_record.country[1]))

\* some listed institution occurs in the record's institution code
InstitutionListed ==
    /\ rf_record.institution_code # Absent
    /\ \E i \in 1..Len(rf_config.institutions) :
         Contains(Lower(rf_config.institutions[i]),
                  Lower(rf_record.institution_code[1]))

\* C21: a record that passes the earlier checks passes a non-empty country
\* list iff some entry is a case-insensitive substring of its country, an
\* absent country matching nothing, and is dropped with country_not_matched
\* otherwise; the same holds for the institution list, institution code and
\* institution_not_matched; an empty list skips its check.
C21_AllowLists ==
    (Applied /\ PassesBefore(9)) =>
        IF rf_config.countries # <<>> /\ ~CountryListed
        THEN rf_result = Dropped("country_not_matched")
        ELSE IF rf_config.institutions # <<>> /\ ~InstitutionListed
        THEN rf_result = Dropped("institution_not_matched")
        ELSE rf_result.keep

\* a country in lower case that holds a listed entry as a proper substring
\* passes the country list
C21_Witness ==
    /\ Applied
    /\ rf_config.countries # <<>>
    /\ rf_record.country # Absent
    /\ rf_record.country[1] = Lower(rf_record.country[1])
    /\ \A i \in 1..Len(rf_config.countries) :
         Len(rf_config.countries[i]) < Len(rf_record.country[1])
    /\ rf_result.keep

\* C25: apply never raises: whatever the record, a malformed year, country
\* or institution code included, apply returns a FilterResult.
C25_ApplyNeverRaises == rf_pc # "raised" /\ rf_raised = None

\* the identifiers applied since construction or the last reset
AppliedSinceReset ==
    rf_applied
        \cup (IF rf_pc \in {"result", "raised"} THEN {rf_record.key} ELSE {})

\* C26: with deduplication enabled, seen_count is the number of distinct
\* identifiers applied since construction or the last reset, which is 0
\* when reset() returns, and an identifier not applied since then is not
\* dropped as duplicate: it is kept when the other checks pass.
C26_SeenCountSinceReset ==
    rf_config.deduplicate =>
        /\ seen_count = Cardinality(AppliedSinceReset)
        /\ (Applied /\ rf_record.key \notin rf_applied) =>
             /\ rf_result.reason # "duplicate"
             /\ Failing = {} => rf_result.keep

\* after a reset that cleared several identifiers, one of them is applied
\* again and kept, and it is the only one counted
C26_Witness ==
    /\ Applied
    /\ rf_config.deduplicate
    /\ Cardinality(rf_cleared) > 1
    /\ rf_record.key \in rf_cleared
    /\ rf_result.keep
    /\ seen_count = 1

(***************************************************************************)
(* Properties of the construction of a FilterConfig.                       *)
(***************************************************************************)
\* the constructor has returned an instance
Built == fc_pc = "built"

\* C22: a constructed FilterConfig has 1700 <= year_start <= year_end <=
\* currentYear + 1, an omitted year_end being the current year, and the
\* construction raises for a year_start below 1700, a year_end above
\* currentYear + 1 and a year_start above year_end.
C22_YearsValidated ==
    /\ Built =>
         /\ MIN_YEAR <= fc_config.year_start
         /\ fc_config.year_start <= fc_config.year_end
         /\ fc_config.year_end <= CurrentYear + 1
         /\ fc_args.year_end = Absent => fc_config.year_end = CurrentYear
    /\ (/\ fc_pc # "new"
        /\ \/ fc_args.year_start < MIN_YEAR
           \/ /\ fc_args.year_end # Absent
              /\ \/ fc_args.year_end[1] > CurrentYear + 1
                 \/ fc_args.year_start > fc_args.year_end[1])
           => fc_pc = "raised"

\* C23: the construction succeeds only when exactly one of genus and family
\* is non-empty, and raises when both are empty and when both are
\* non-empty.
C23_ExactlyOneTaxon ==
    /\ Built => Empty(fc_args.genus) # Empty(fc_args.family)
    /\ (fc_pc # "new" /\ Empty(fc_args.genus) = Empty(fc_args.family))
           => fc_pc = "raised"

\* t is s without its leading and trailing blanks
IsTrimOf(t, s) ==
    \E a \in 0..Len(s) : \E b \in 0..(Len(s) - a) :
        /\ \A j \in 1..a : s[j] = " "
        /\ \A j \in (Len(s) - b + 1)..Len(s) : s[j] = " "
        /\ t = SubSeq(s, a + 1, Len(s) - b)
        /\ t # <<>> => (t[1] # " " /\ t[Len(t)] # " ")

\* the list out is the list raw with the blank entries left out and the
\* others trimmed and passed through the case function, in the same order
IsNormalOf(out, raw, Case(_)) ==
    LET kept == {i \in 1..Len(raw) : \E j \in 1..Len(raw[i]) :
                                       raw[i][j] # " "}
        At(k) == CHOOSE i \in kept :
                    Cardinality({j \in kept : j <= i}) = k
    IN  /\ Len(out) = Cardinality(kept)
        /\ \A k \in 1..Len(out) :
             /\ out[k] # <<>>
             /\ \E t \in RawEntries :
                  IsTrimOf(t, raw[At(k)]) /\ out[k] = Case(t)

\* C29: the construction trims every entry of its lists, discards the
\* empty and the blank ones, puts species and institutions in lower case
\* and countries in upper case and keeps the order; normalising the lists
\* of the instance again changes nothing.
C29_ListsNormalised ==
    Built =>
        /\ fc_args.species_list.kind = "list" =>
             IsNormalOf(fc_config.species_list,
                        fc_args.species_list.items, Lower)
        /\ fc_args.institutions.kind = "list" =>
             IsNormalOf(fc_config.institutions,
                        fc_args.institutions.items, Lower)
        /\ fc_args.countries.kind = "list" =>
             IsNormalOf(fc_config.countries,
                        fc_args.countries.items, Upper)
        /\ clean_string_list(ListArg(fc_config.species_list))
               = fc_config.species_list
        /\ clean_string_list(ListArg(fc_config.institutions))
               = fc_config.institutions
        /\ UpperAll(clean_string_list(ListArg(fc_config.countries)))
               = fc_config.countries

\* a list of two entries, the first blank and the second with a blank on
\* one side of a capital, leaves the capital alone, in lower case
C29_Witness ==
    /\ Built
    /\ fc_args.species_list.kind = "list"
    /\ Len(fc_args.species_list.items) = 2
    /\ fc_args.species_list.items[1] = <<" ">>
    /\ fc_args.species_list.items[2] = <<"B", " ">>
    /\ fc_config.species_list = << <<"b">> >>

(***************************************************************************)
(* Properties of filter_records.                                           *)
(***************************************************************************)
\* the keys of the records before position i
KeysBefore(i) == {fr_records[j].key : j \in 1..(i - 1)}

\* what apply answers for the record at position i on a filter that has
\* been applied to the records before it
AnswerAt(i) ==
    ApplyResult(fr_records[i], fr_config,
                IF fr_config.deduplicate THEN KeysBefore(i) ELSE {})

RECURSIVE KeptUpTo(_)
\* the records among the first n that apply keeps, in input order
KeptUpTo(n) ==
    IF n = 0 THEN <<>>
    ELSE IF AnswerAt(n).keep
         THEN Append(KeptUpTo(n - 1), fr_records[n])
         ELSE KeptUpTo(n - 1)

\* the records of test_filter_records_with_stats: a valid one, one without
\* year, one whose uncertainty is above the maximum
ScenarioRecord(key, y, uncertainty) ==
    [key |-> key, year |-> y, elevation |-> Some(0),
     coordinate_uncertainty |-> Some(Number(uncertainty)),
     specific_epithet |-> Absent, scientific_name |-> Absent,
     country |-> Absent, institution_code |-> Absent, malformed |-> {}]

Scenario ==
    <<ScenarioRecord(1, Some(BaseYear), MaxUncertainty),
      ScenarioRecord(2, Absent, MaxUncertainty),
      ScenarioRecord(3, Some(BaseYear), MaxUncertainty + 1)>>

InScenario ==
    /\ fr_pc = "returned"
    /\ fr_records = Scenario
    /\ fr_config.deduplicate
    /\ fr_config.keep_unknown_uncertainty

\* C24: filter_records returns as kept exactly the records that apply
\* keeps, in input order, one filter serving the whole list; on the three
\* records of the scenario it returns the first record alone with total 3,
\* kept 1, missing_year 1, uncertainty_exceeded 1 and every other counter 0.
C24_KeptInOrder ==
    fr_pc = "returned" =>
        /\ fr_filtered = KeptUpTo(Len(fr_records))
        /\ fr_stats["total"] = Len(fr_records)
        /\ fr_stats["kept"] = Len(fr_filtered)
        /\ InScenario =>
             /\ fr_filtered = <<Scenario[1]>>
             /\ fr_stats = [k \in StatKeys |->
                              CASE k = "total" -> 3
                                [] k \in {"kept", "missing_year",
                                          "uncertainty_exceeded"} -> 1
                                [] OTHER -> 0]

\* the scenario has been filtered
C24_Witness == InScenario /\ Len(fr_filtered) = 1

(***************************************************************************)
(* Properties of the progress callback, of the count query and of the      *)
(* offset ceiling.                                                         *)
(***************************************************************************)
\* the generator has returned, raised, or been closed by its consumer
Over == pc \in {"done", "raised", "closed"}

\* C27: progress_callback is invoked exactly once per yielded record, in
\* yield order, the k-th call with (k, total estimate, year of the bucket
\* the record came from), and never once the sequence has completed or
\* been abandoned.
C27_CallbackPerRecord ==
    /\ [](has_callback =>
            /\ Over => Len(callbacks) = Len(yielded)
            /\ \A k \in 1..Len(callbacks) :
                 /\ callbacks[k].count = k
                 /\ callbacks[k].total = total_estimate)
    /\ [][callbacks' # callbacks =>
            /\ Len(callbacks') = Len(callbacks) + 1
            /\ callbacks'[Len(callbacks')].year = last_req.year]_vars
    /\ [][Over => callbacks' = callbacks]_vars

\* C28: the outcome of the count query has no effect on the page requests:
\* a run that no poll stops, over a non-empty range of years, requests its
\* first page whether the count query answered, with whatever count, or
\* failed.
C28_CountOutcomeIgnored ==
    (Ended /\ ~stopped /\ year_start <= year_end) => last_req # NoReq

\* C30: every page request has an offset that is a multiple of the page
\* size and below the ceiling of 100000; when the next offset of a year
\* reaches the ceiling a warning is logged and the loop goes to the next
\* year without raising.
C30_OffsetBelowCeiling ==
    /\ [](last_req # NoReq =>
            /\ last_req.offset % page_size = 0
            /\ last_req.offset < MAX_OFFSET)
    /\ [][(pc = "items" /\ offset' # offset /\ offset' >= MAX_OFFSET) =>
            /\ last_log' = Log("warning", "Year has >100K records")
            /\ pc' = "for"
            /\ year' = year + 1
            /\ raised' = None]_vars
    /\ [][pc = "request" => offset < MAX_OFFSET]_vars

\* the last page below the ceiling was full, the warning is logged and the
\* loop stands at the head of the next year
C30_Witness ==
    /\ pc = "for"
    /\ last_log = Log("warning", "Year has >100K records")
    /\ last_req.offset + page_size >= MAX_OFFSET
    /\ last_req.offset < MAX_OFFSET
    /\ year = last_req.year + 1
    /\ year <= year_end
    /\ raised = None

(***************************************************************************)
(* Properties of termination and of the polling points.                    *)
(***************************************************************************)
\* ceil(a / b)
CeilDiv(a, b) == (a + b - 1) \div b

\* C31: a fully consumed iter_occurrences_by_year, each of whose requests
\* returns or fails, terminates; it issues at most ceil(100000 / page size)
\* page requests per year, over the years of its range only, and yields no
\* more records than the index has identifiers.
C31_Terminates ==
    /\ <>Ended
    /\ [](/\ n_requests <= CeilDiv(MAX_OFFSET, page_size)
          /\ req_years \subseteq year_start..year_end
          /\ Len(yielded) <= Cardinality(index_keys))

\* a run that asked for every page of a year below the ceiling has returned
C31_Witness ==
    /\ pc = "done"
    /\ n_requests = CeilDiv(MAX_OFFSET, page_size)
    /\ raised = None

\* C32: with a stop_check, every page request follows a poll made since the
\* previous request whose answer was false; the first request of a year
\* follows two such polls, the one of the for loop and the one of the while
\* loop; no poll is made while the records of a fetched page are taken, and
\* the generator leaves a page only when every record of it has been
\* yielded or skipped as a duplicate.
C32_PollingPoints ==
    [][has_stop_check =>
        /\ pc = "request" =>
              /\ Len(polls) >= 1
              /\ polls[Len(polls)] = FALSE
              /\ offset = 0 =>
                    /\ Len(polls) >= 2
                    /\ polls[Len(polls) - 1] = FALSE
        /\ pc = "items" =>
              /\ polls = <<>>
              /\ polls' = <<>>
              /\ pc' \notin {"items", "closed"} =>
                    Range(data.results) \subseteq seen_keys']_vars

\* a second page of a year has been fetched under a stop_check and its last
\* record yielded
C32_Witness ==
    /\ has_stop_check
    /\ pc = "items"
    /\ offset > 0
    /\ idx = Len(data.results)
    /\ idx >= 1
    /\ Len(yielded) > idx

(***************************************************************************)
(* Properties of the sleeps of retry_with_backoff.                         *)
(***************************************************************************)
RECURSIVE Pow(_, _)
Pow(b, e) == IF e = 0 THEN 1 ELSE b * Pow(b, e - 1)

\* C33: retry_with_backoff sleeps once before each retry and at no other
\* time: a call of func that is not the first has exactly one sleep between
\* it and the call before, the k-th sleep lasts
\* initial_delay * backoff_factor^(k-1), and once the wrapper has returned
\* or raised the sleeps number one less than the calls.
C33_SleepBeforeEachRetry ==
    LET calls == Len(rb_outcomes)
        retries == IF calls = 0 THEN 0 ELSE calls - 1
    IN  /\ Len(rb_sleeps) =
               IF rb_pc \in {"loop", "call"} THEN calls ELSE retries
        /\ \A k \in 1..Len(rb_sleeps) :
               rb_sleeps[k] = rb_initial_delay * Pow(rb_backoff_factor, k - 1)

\* func succeeded on its third call, after two sleeps of growing length
C33_Witness ==
    /\ rb_pc = "returned"
    /\ Len(rb_outcomes) = 3
    /\ Len(rb_sleeps) = 2
    /\ rb_sleeps[2] > rb_sleeps[1]

(***************************************************************************)
(* Properties of iter_occurrences.                                         *)
(***************************************************************************)
\* the generator of iter_occurrences is suspended at a yield
SingleSuspended == pc \in {"items", "closed"} /\ idx > 0

\* C34: iter_occurrences yields the results of each fetched page in page
\* order, duplicates included, and leaves a page only after its last
\* result; when the consumer asks for what follows the k-th record the
\* callback is called with (k, total), total being the count of the first
\* response; the generator ends after an empty page, after a page with
\* endOfRecords, or when the next offset is 100000 or more, and only then;
\* an error of a request is raised to the caller.
C34_SingleQuery ==
    [][/\ SubSeq(yielded', 1, Len(yielded)) = yielded
       /\ pc' = "items" =>
             /\ Len(yielded') >= idx'
             /\ SubSeq(yielded', Len(yielded') - idx' + 1, Len(yielded'))
                    = SubSeq(data'.results, 1, idx')
       /\ (pc = "items" /\ pc' = "items") =>
             /\ idx' = idx + 1
             /\ Len(yielded') = Len(yielded) + 1
       /\ (pc = "items" /\ pc' \notin {"items", "closed"}) =>
             /\ idx = Len(data.results)
             /\ yielded' = yielded
             /\ pc' = "done" <=>
                    \/ data.endOfRecords
                    \/ offset + page_size >= MAX_OFFSET
             /\ pc' = "request" <=> pc' # "done"
       /\ pc = "request" =>
             /\ yielded' = yielded
             /\ last_outcome' \in RequestErrors =>
                    /\ pc' = "raised"
                    /\ raised' = last_outcome'
             /\ last_outcome' = "response" =>
                    /\ total_estimate' =
                          IF n_requests = 0 THEN Some(data'.count)
                          ELSE total_estimate
                    /\ pc' = IF data'.results = <<>> THEN "done"
                             ELSE "items"
       /\ count' = Len(yielded') - (IF SingleSuspended' THEN 1 ELSE 0)
       /\ callbacks' =
             IF has_callback
             THEN [k \in 1..count' |-> SingleCall(k, total_estimate'[1])]
             ELSE <<>>
       /\ pc \in {"done", "raised", "closed"} => pc' = pc]_vars

\* the generator has ended after a second page, having yielded the same
\* identifier twice and called back once for each record
C34_Witness ==
    /\ pc = "done"
    /\ n_requests >= 2
    /\ data.results # <<>>
    /\ has_callback
    /\ Len(callbacks) = Len(yielded)
    /\ Len(yielded) >= 2
    /\ yielded[1] = yielded[2]
    /\ callbacks[2] = SingleCall(2, bucket_size)

(***************************************************************************)
(* Properties of the deduplication and of the results of apply.            *)
(***************************************************************************)
\* apply has been left, by a return or by an exception
Left == rf_pc \in {"result", "raised"}

\* C35: with deduplication enabled, a record is kept only at the first
\* application of its identifier since construction or the last reset, so
\* at most one record per identifier is kept; the identifier is in the seen
\* set once apply is left, whatever became of the record; and a record
\* whose identifier was applied before is dropped as duplicate whatever its
\* other fields are, none of the other checks being evaluated.
C35_OneKeptPerKey ==
    rf_config.deduplicate =>
        /\ rf_applied \subseteq rf_seen
        /\ Left => rf_record.key \in rf_seen
        /\ (Left /\ rf_record.key \in rf_applied) =>
              /\ Applied
              /\ rf_result = Dropped("duplicate")
              /\ rf_seen = rf_before
        /\ (Applied /\ rf_result.keep) => rf_record.key \notin rf_applied

\* a record whose year is malformed, and would make the year check raise,
\* is dropped as duplicate because its identifier was applied before
C35_Witness ==
    /\ Applied
    /\ rf_config.deduplicate
    /\ rf_record.key \in rf_applied
    /\ rf_record.year # Absent
    /\ "year" \in rf_record.malformed
    /\ rf_result = Dropped("duplicate")

\* C36: a FilterResult returned by apply has keep = true exactly when it
\* has no reason; a kept result has the uncertainty status known or
\* unknown, and unknown only under keep_unknown_uncertainty.
C36_ResultWellFormed ==
    Applied =>
        /\ rf_result.keep <=> rf_result.reason = None
        /\ rf_result.keep =>
              /\ rf_result.uncertainty_status \in {"known", "unknown"}
              /\ rf_result.uncertainty_status = "unknown" =>
                    rf_config.keep_unknown_uncertainty

\* a record without a numeric uncertainty was kept as unknown
C36_Witness ==
    /\ Applied
    /\ ~UncertaintyIsNumber
    /\ rf_config.keep_unknown_uncertainty
    /\ rf_result = Kept("unknown")

(***************************************************************************)
(* Properties of the statistics of filter_records.                         *)
(***************************************************************************)
\* the ten counters of the dropped records
DropCounters ==
    <<"duplicate", "missing_year", "year_too_old", "year_too_new",
      "missing_elevation", "uncertainty_exceeded",
      "uncertainty_unknown_dropped", "species_not_matched",
      "country_not_matched", "institution_not_matched">>

RECURSIVE SumOf(_, _)
\* the sum of the first n drop counters of stats
SumOf(stats, n) ==
    IF n = 0 THEN 0 ELSE stats[DropCounters[n]] + SumOf(stats, n - 1)

Dropped10(stats) == SumOf(stats, Len(DropCounters))

\* C37: the statistics of filter_records are conserved: total is the number
\* of records taken from the list and equals kept plus the sum of the ten
\* drop counters, uncertainty_unknown_kept is at most kept, and each record
\* that is dropped raises exactly one of the ten counters, by one.
C37_StatsConserved ==
    /\ [](fr_pc \in {"loop", "returned"} =>
            /\ fr_stats["total"] = Len(fr_records)
            /\ fr_stats["total"] = fr_stats["kept"] + Dropped10(fr_stats)
            /\ fr_stats["uncertainty_unknown_kept"] <= fr_stats["kept"])
    /\ [][(fr_pc' = "loop" /\ Len(fr_records') > Len(fr_records)
              /\ fr_filtered' = fr_filtered) =>
            \E i \in 1..Len(DropCounters) :
                fr_stats' = Count(fr_stats, {"total", DropCounters[i]})]_vars

\* a list whose records were dropped for three different reasons, one of
\* them an unknown uncertainty, has been filtered
C37_Witness ==
    /\ fr_pc = "returned"
    /\ Len(fr_records) = MaxBatch
    /\ fr_stats["kept"] = 0
    /\ fr_stats["uncertainty_unknown_dropped"] = 1
    /\ fr_stats["year_too_new"] = 1
    /\ fr_stats["missing_elevation"] = 1

(***************************************************************************)
(* Properties of the GUI.                                                  *)
(***************************************************************************)
\* the worker threads that have been started and have not ended
ActiveWorkers == {w \in Workers : gui_pc[w] \notin {"unstarted", "ended"}}

\* C38: at most one download worker of the GUI is active at any time.
C38_OneWorker == Cardinality(ActiveWorkers) <= 1

\* C39: once Stop has been pressed a worker issues at most one more
\* request, the one in flight or about to leave: it never issues two
\* requests while the stop flag is set.
C39_StopEndsRequests == \A w \in Workers : gui_late[w] <= 1

\* C40: a worker of the GUI that has ended has closed the session of the
\* client it created.
C40_SessionClosed ==
    \A w \in Workers : gui_pc[w] = "ended" => gui_client[w] # "open"

=============================================================================
